---------------------------- MODULE Spec2Model ----------------------------
(***************************************************************************)
(* Slack-to-Jira bridge: event dispatch (EventFactory), the handler state  *)
(* machine (Event.__init__ / Event.handle_event), the three command        *)
(* workflows, the processor entry point and the verifier's enqueue step;    *)
(* and the Transfer Engine (AsyncSlackToJiraTransfer) that streams the      *)
(* files of a message to the registered issues.                            *)
(*                                                                         *)
(* Python values are encoded as follows.  None is the string "None".  A    *)
(* mention text is a sequence of tokens that were separated by single      *)
(* blanks; the empty sequence stands for an absent, None or empty text     *)
(* (the code treats the three alike).  A command's residual argument       *)
(* string is the sequence of its words, the empty sequence standing for    *)
(* None.  An absent 'item' and an 'item' without keys are the same record  *)
(* (both fields None), as ReactionEvent reads it with .get('item', {}).    *)
(***************************************************************************)
EXTENDS Integers, Sequences, FiniteSets, TLC

VARIABLES
    event_dict,     \* the notification handed to verify() / process()
    pc,             \* position of the processor: idle, create, handle, acknowledge, done, raised
    event_obj,      \* the workflow object create_event returned (NoEvent before)
    body_impl,      \* which _process_event ran: none, concrete, stub
    body_result,    \* how _process_event ended: pending, ok, or the exception class
    raised,         \* the exception that left process(), None if it returned
    bot_reactions,  \* Slack: per message timestamp, the bot's reactions, oldest first
    table,          \* DynamoDB: the set of stored Registration items
    jira_links,     \* Jira: the remote links that exist, as [issue, id]
    jira_comments,  \* Jira: the comments posted, in order, as issue ids
    calls,          \* the calls made during this delivery, in order
    verify_status,  \* HTTP status the verifier answered, 0 before
    request,        \* the HTTP request the verifier received, NoRequest before
    verify_reply,   \* the message or challenge the verifier answered, None before
    queue,          \* SQS: the messages the verifier enqueued
    transfer,       \* AsyncSlackToJiraTransfer.transfer: its arguments, position and results
    jobs            \* per file of the transfer, the state of download_and_process_file

vars == << event_dict, pc, event_obj, body_impl, body_result, raised, bot_reactions,
           table, jira_links, jira_comments, calls, verify_status, request, verify_reply, queue, transfer, jobs >>

\* The variables of the event pipeline and those of the Transfer Engine.
event_vars == << event_dict, pc, event_obj, body_impl, body_result, raised, bot_reactions,
                 table, jira_links, jira_comments, calls, verify_status, request, verify_reply, queue >>

transfer_vars == << transfer, jobs >>

None == "None"

\* Longest mention text, in tokens.
MaxTextLen == 3

(***************************************************************************)
(* Configuration and vocabulary.                                           *)
(***************************************************************************)
SuccessReaction == "white_check_mark"
ErrorReaction == "x"
SyncReaction == "speech_balloon"

MentionToken == "<@U1>"
LinkToken == "<https://jira/PROJ-1|PROJ-1>"
BareLinkToken == "<https://jira/PROJ-1>"
Tokens == {MentionToken, LinkToken, "register", "deregister", "PROJ-1"}

Channel1 == "C1"
\* T1 is a thread root, T2 a reply in T1's thread, T3 a message outside any thread.
Timestamps == {"T1", "T2", "T3"}

\* conversations.replies: the thread_ts of the message with the given ts.
SlackThreadTs(ts) == IF ts \in {"T1", "T2"} THEN "T1" ELSE None

RECURSIVE SeqsUpTo(_, _)
SeqsUpTo(S, n) ==
    IF n = 0 THEN {<<>>}
    ELSE LET shorter == SeqsUpTo(S, n - 1)
         IN  shorter \cup {Append(s, x) : s \in {t \in shorter : Len(t) = n - 1}, x \in S}

Falsy(v) == v = None \/ v = ""

(***************************************************************************)
(* AppMentionEvent._sanitize_command_text and infer_subtype.               *)
(***************************************************************************)
IsUserMention(tok) == tok = MentionToken

ReplaceLink(tok) ==
    IF tok = LinkToken THEN "PROJ-1"
    ELSE IF tok = BareLinkToken THEN "https://jira/PROJ-1"
    ELSE tok

_sanitize_command_text(text) ==
    LET kept == SelectSeq(text, LAMBDA tok : ~IsUserMention(tok))
    IN  [i \in 1..Len(kept) |-> ReplaceLink(kept[i])]

AppMentionEvent_infer_subtype(event_data) ==
    LET words == _sanitize_command_text(event_data.text)
    IN  IF words = <<>>
        THEN [sub_event_type |-> "", args |-> <<>>]
        ELSE [sub_event_type |-> Head(words), args |-> Tail(words)]

ReactionEvent_infer_subtype(event_data) ==
    [sub_event_type |-> event_data.reaction, args |-> <<>>]


(***************************************************************************)
(* Event.__init__: type-extraction, subtype-extraction, then the check     *)
(* that message_ts and channel_id are set.                                 *)
(***************************************************************************)
NoEvent ==
    [cls |-> None, channel_id |-> None, message_ts |-> None, thread_ts |-> None,
     sanitized_text |-> <<>>, wrappers |-> FALSE]

\* The verifier has received no request.
NoRequest == [headers |-> FALSE, body |-> "none", signed |-> FALSE]

\* No transfer is running.  request_errors is the number of requests that
\* Slack and Jira will still answer with an error.
NoTransfer ==
    [pc |-> "idle", files |-> <<>>, jira_issue_ids |-> <<>>, grid |-> <<>>,
     attachment_contents |-> <<>>, exc |-> None, request_errors |-> 0]

MentionClasses == {"AppMentionRegisterEvent", "AppMentionDeregisterEvent"}

\* AppMentionEvent._handle_event_type: thread_ts, channel and ts are all required.
AppMentionEvent_handle_event_type(event_data) ==
    [thread_ts |-> event_data.thread_ts,
     channel_id |-> event_data.channel,
     message_ts |-> event_data.ts,
     exc |-> IF \/ event_data.thread_ts = None
                \/ event_data.channel = None
                \/ event_data.ts = None
             THEN "NotHandledException" ELSE None]

\* ReactionEvent._handle_event_type: reads item.channel and item.ts, raises nothing.
ReactionEvent_handle_event_type(event_data) ==
    [thread_ts |-> None,
     channel_id |-> event_data.item_channel,
     message_ts |-> event_data.item_ts,
     exc |-> None]

\* _handle_event_sub_type: register and deregister keep the stripped argument
\* string, the sync workflow keeps nothing.
Event_handle_event_sub_type(cls, args) ==
    IF cls \in MentionClasses THEN args ELSE <<>>

\* A construction that fails when the ticket client and the store are absent.
Event_init_needing_clients(cls, event_data, args, wrappers) ==
    LET t == IF cls \in MentionClasses
             THEN AppMentionEvent_handle_event_type(event_data)
             ELSE ReactionEvent_handle_event_type(event_data)
        obj == [cls |-> cls, channel_id |-> t.channel_id, message_ts |-> t.message_ts,
                thread_ts |-> t.thread_ts,
                sanitized_text |-> Event_handle_event_sub_type(cls, args),
                wrappers |-> wrappers]
    IN  IF t.exc # None \/ ~wrappers
        THEN [exc |-> "NotHandledException", cls |-> cls, obj |-> NoEvent]
        ELSE IF obj.message_ts = None \/ obj.channel_id = None
        THEN [exc |-> "NotHandledException", cls |-> cls, obj |-> NoEvent]
        ELSE [exc |-> None, cls |-> cls, obj |-> obj]

Event_init(cls, event_data, args, wrappers) ==
    LET t == IF cls \in MentionClasses
             THEN AppMentionEvent_handle_event_type(event_data)
             ELSE ReactionEvent_handle_event_type(event_data)
        obj == [cls |-> cls, channel_id |-> t.channel_id, message_ts |-> t.message_ts,
                thread_ts |-> t.thread_ts,
                sanitized_text |-> Event_handle_event_sub_type(cls, args),
                wrappers |-> wrappers]
    IN  IF t.exc # None
        THEN [exc |-> t.exc, cls |-> cls, obj |-> NoEvent]
        ELSE IF obj.message_ts = None \/ obj.channel_id = None
        THEN [exc |-> "NotHandledException", cls |-> cls, obj |-> NoEvent]
        ELSE [exc |-> None, cls |-> cls, obj |-> obj]

(***************************************************************************)
(* EventFactory: the two registries and create_event.                      *)
(***************************************************************************)
top_level_event_types ==
    ("app_mention" :> "AppMentionEvent") @@ ("reaction_added" :> "ReactionEvent")

\* A registry in which two commands have exchanged their workflow types.
concrete_event_types_swapped ==
    ("register" :> "AppMentionDeregisterEvent") @@ ("deregister" :> "AppMentionRegisterEvent") @@
    (SyncReaction :> "ReactionSyncEvent")

concrete_event_types ==
    ("register" :> "AppMentionRegisterEvent") @@
    ("deregister" :> "AppMentionDeregisterEvent") @@
    (SyncReaction :> "ReactionSyncEvent")

infer_subtype(top_cls, event_data) ==
    IF top_cls = "AppMentionEvent"
    THEN AppMentionEvent_infer_subtype(event_data)
    ELSE ReactionEvent_infer_subtype(event_data)

\* The result names the exception raised (None if none), the class whose
\* constructor ran (None if none ran) and the object returned.
create_event(event_data, wrappers) ==
    LET event_type == event_data.type
    IN  IF Falsy(event_type) \/ event_type \notin DOMAIN top_level_event_types
        THEN [exc |-> "UndefinedCommand", cls |-> None, obj |-> NoEvent]
        ELSE LET sub == infer_subtype(top_level_event_types[event_type], event_data)
             IN  IF \/ Falsy(sub.sub_event_type)
                    \/ sub.sub_event_type \notin DOMAIN concrete_event_types
                 THEN [exc |-> "UndefinedCommand", cls |-> None, obj |-> NoEvent]
                 ELSE Event_init(concrete_event_types[sub.sub_event_type],
                                 event_data, sub.args, wrappers)

\* A create_event that works on the caller's dict itself.
deepcopy_aliasing(ref) == ref

\* copy.deepcopy: the dict "copy", new, equal to the one copied and sharing
\* nothing with it.
deepcopy(ref) == "copy"

\* A create_event whose pop reaches the caller's dict.
CallerPayloadPopped(event_data) == [event_data EXCEPT !.type = None]

\* The caller's dict when create_event has ended, by return or by raise:
\* event_data is rebound to the deep copy and 'type' is popped from the dict
\* event_data then names; nothing else in the construction writes to a dict.
CallerPayloadAfter(event_data) ==
    LET heap == [caller |-> event_data, copy |-> event_data]
        working == deepcopy("caller")
        popped == [heap EXCEPT ![working].type = None]
    IN  popped.caller

\* Event._get_thread_id
_get_thread_id(thread_ts, channel) == channel \o "_" \o thread_ts

\* construct_message_group_id of AppMentionEvent and of ReactionEvent
\* A group key made from the message timestamp for every kind.
construct_message_group_id_by_message(obj) ==
    obj.channel_id \o "_" \o obj.message_ts

construct_message_group_id(obj) ==
    IF obj.cls \in MentionClasses
    THEN obj.channel_id \o "_" \o obj.thread_ts
    ELSE obj.channel_id \o "_" \o obj.message_ts

(***************************************************************************)
(* The notifications considered.                                           *)
(***************************************************************************)
Texts == SeqsUpTo(Tokens, MaxTextLen) \cup {<<MentionToken, SyncReaction>>,
                                            <<"register", BareLinkToken>>}

Reactions == {None, "", SyncReaction, "register", "thumbsup"}

Payload(type, text, reaction, channel, ts, thread_ts, item_channel, item_ts) ==
    [type |-> type, text |-> text, reaction |-> reaction, channel |-> channel,
     ts |-> ts, thread_ts |-> thread_ts, item_channel |-> item_channel,
     item_ts |-> item_ts]

\* Mentions with every identifying field, and mentions that lack some.
MentionPayloads ==
    {Payload("app_mention", text, None, Channel1, "T2", "T1", None, None) : text \in Texts}
    \cup
    {Payload("app_mention", text, None, channel, ts, thread_ts, None, None) :
        text \in {<<MentionToken, "register", "PROJ-1">>, <<MentionToken, "deregister", "PROJ-1">>,
                  <<MentionToken, "PROJ-1">>},
        channel \in {None, Channel1}, ts \in {None, "T2"}, thread_ts \in {None, "T1"}}

ReactionPayloads ==
    {Payload("reaction_added", <<>>, reaction, None, None, None, item_channel, item_ts) :
        reaction \in Reactions, item_channel \in {None, Channel1},
        item_ts \in {None} \cup Timestamps}

\* A payload that carries the fields of both shapes.
HybridPayloads ==
    {Payload(type, text, reaction, Channel1, "T2", "T1", Channel1, "T1") :
        type \in {"app_mention", "reaction_added"},
        text \in {<<MentionToken, SyncReaction>>, <<MentionToken, "register", "PROJ-1">>},
        reaction \in {SyncReaction, "register", "deregister"}}

OtherKindPayloads ==
    {Payload(type, <<MentionToken, "register", "PROJ-1">>, SyncReaction,
             Channel1, "T2", "T1", Channel1, "T1") : type \in {None, "", "message"}}

Payloads == MentionPayloads \cup ReactionPayloads \cup HybridPayloads \cup OtherKindPayloads

(***************************************************************************)
(* The collaborators' state and the calls a workflow body makes.  A body   *)
(* is the sequence of collaborator calls it makes in the current state     *)
(* (its plan) and the way it ends when every call returns; a call that     *)
(* raises ends the body there with that error.                             *)
(***************************************************************************)
Item(issue, thread, link) ==
    [jira_issue_id |-> issue, slack_thread_id |-> thread, jira_link_id |-> link]

Link(issue, id, title) == [issue |-> issue, id |-> id, title |-> title]

Call(op, issue, thread, arg, title) ==
    [op |-> op, issue |-> issue, thread |-> thread, arg |-> arg, title |-> title]

\* What the call log keeps of a call.
Logged(op, arg, ok) == [op |-> op, arg |-> arg, ok |-> ok]

\* Most remote links Jira is let to create, counted by the largest link id.
MaxLinkId == 3

\* A Registration that loses the id of its link.
StoredLinkIdLost(id) == None

\* str(jira_link_id) of an id that add_link returned.  Jira's link ids are
\* numbers; a Registration keeps str(id), and the wrapper's calls put that
\* string into the request path.
StoredLinkId(id) == ToString(id)

\* The id Jira gives the next remote link it creates: one it has never given,
\* so larger than the id of every link that exists and than every id a
\* Registration still names.
NewLinkId(links, tbl) ==
    LET used == {l.id : l \in links} \cup
                {n \in 1..MaxLinkId : \E it \in tbl : it.jira_link_id = ToString(n)}
    IN  IF used = {} THEN 1 ELSE 1 + (CHOOSE n \in used : \A k \in used : k <= n)

\* DynamoDbWrapper.get_item: the stored items with that key (none or one).
get_item(tbl, issue, thread) ==
    {it \in tbl : it.jira_issue_id = issue /\ it.slack_thread_id = thread}

\* A store that keeps the item stored under the key beside the new one.
put_item_appending(tbl, item) == tbl \cup {item}

\* DynamoDbWrapper.put_item: the item replaces the one stored under its key.
put_item(tbl, item) ==
    (tbl \ get_item(tbl, item.jira_issue_id, item.slack_thread_id)) \cup {item}

\* A store whose delete leaves the item in place.
delete_item_nothing(tbl, issue, thread) == tbl

\* DynamoDbWrapper.delete_item
delete_item(tbl, issue, thread) == tbl \ get_item(tbl, issue, thread)

\* The issue ids in the order a query returns them (ascending range key).
IssueOrder ==
    << "PROJ-1", "PROJ-2", "deregister", "https://jira/PROJ-1", "register" >>

\* DynamoDbWrapper.query on slack_thread_id: the issue ids of the thread's items.
query(tbl, thread) ==
    SelectSeq(IssueOrder, LAMBDA i : get_item(tbl, i, thread) # {})

\* A validation that finds every link missing.
validate_link_never(links, issue, id) == FALSE

\* A validation that finds every link present.
validate_link_always(links, issue, id) == TRUE

\* JiraWrapper.validate_link: whether the remote link exists on the issue.
validate_link(links, issue, id) ==
    \E l \in links : l.issue = issue /\ StoredLinkId(l.id) = id

\* The state after one call that returned.
Effect(c, st) ==
    CASE c.op = "add_link" ->
            [st EXCEPT !.links = @ \cup {Link(c.issue, NewLinkId(st.links, st.table), c.title)}]
      [] c.op = "update_link" ->
            [st EXCEPT !.links =
                {IF l.issue = c.issue /\ StoredLinkId(l.id) = c.arg
                 THEN Link(l.issue, l.id, c.title) ELSE l : l \in @}]
      [] c.op = "remove_link" ->
            [st EXCEPT !.links = {l \in @ : ~(l.issue = c.issue /\ StoredLinkId(l.id) = c.arg)}]
      [] c.op = "put_item" ->
            [st EXCEPT !.table = put_item(@, Item(c.issue, c.thread, c.arg))]
      [] c.op = "delete_item" ->
            [st EXCEPT !.table = delete_item(@, c.issue, c.thread)]
      [] c.op = "add_comment" ->
            [st EXCEPT !.comments = Append(@, [issue |-> c.issue, link |-> c.arg,
                                               body |-> c.title])]
      [] OTHER -> st

RECURSIVE Effects(_, _)
Effects(cs, st) ==
    IF cs = <<>> THEN st ELSE Effects(Tail(cs), Effect(Head(cs), st))

Plan(cs, final) == [calls |-> cs, final |-> final]

(***************************************************************************)
(* AppMentionRegisterEvent._process_event                                  *)
(***************************************************************************)
RegisterPlan(obj, tbl, links) ==
    IF obj.sanitized_text = <<>> \/ ~obj.wrappers
    THEN Plan(<<>>, "IgnorableException")
    ELSE
    LET jira_issue_id == Head(obj.sanitized_text)
        optional_param == Tail(obj.sanitized_text)
        link_text == IF optional_param # <<>> THEN optional_param ELSE <<obj.thread_ts>>
        thread_id == _get_thread_id(obj.thread_ts, obj.channel_id)
        existing == get_item(tbl, jira_issue_id, thread_id)
        jira_link_id == IF existing = {} THEN None
                        ELSE (CHOOSE it \in existing : TRUE).jira_link_id
        validates == existing # {} /\ ~Falsy(jira_link_id)
        remote_link_valid == validates /\ validate_link(links, jira_issue_id, jira_link_id)
        reads == << Call("get_channel_name", None, None, obj.channel_id, <<>>),
                    Call("get_message_link", None, None, obj.thread_ts, <<>>),
                    Call("get_item", jira_issue_id, thread_id, None, <<>>) >>
                 \o (IF validates
                     THEN << Call("validate_link", jira_issue_id, None, jira_link_id, <<>>) >>
                     ELSE <<>>)
    IN  IF existing # {} /\ remote_link_valid
        THEN Plan(reads \o
                  << Call("update_link", jira_issue_id, None, jira_link_id, link_text),
                     Call("put_item", jira_issue_id, thread_id, jira_link_id, <<>>) >>,
                  "ok")
        ELSE Plan(reads \o
                  << Call("add_link", jira_issue_id, None, None, link_text),
                     Call("put_item", jira_issue_id, thread_id,
                          StoredLinkId(NewLinkId(links, tbl)), <<>>) >>,
                  "ok")

(***************************************************************************)
(* AppMentionDeregisterEvent._process_event.  A remove_link that raises is *)
(* logged and the body goes on, so remove_link is planned only when it     *)
(* returns (link_removed).                                                 *)
(***************************************************************************)
DeregisterPlan(obj, tbl, links, link_removed) ==
    IF obj.sanitized_text = <<>> \/ ~obj.wrappers \/ Len(obj.sanitized_text) # 1
    THEN Plan(<<>>, "IgnorableException")
    ELSE
    LET jira_issue_id == obj.sanitized_text[1]
        thread_id == _get_thread_id(obj.thread_ts, obj.channel_id)
        item == get_item(tbl, jira_issue_id, thread_id)
        jira_link_id == IF item = {} THEN None
                        ELSE (CHOOSE it \in item : TRUE).jira_link_id
        reads == << Call("get_channel_name", None, None, obj.channel_id, <<>>),
                    Call("get_item", jira_issue_id, thread_id, None, <<>>) >>
    IN  IF Falsy(jira_link_id)
        THEN Plan(reads, "IgnorableException")
        ELSE Plan(reads \o
                  << Call(IF link_removed THEN "remove_link" ELSE "remove_link_failed",
                          jira_issue_id, None, jira_link_id, <<>>),
                     Call("delete_item", jira_issue_id, thread_id, None, <<>>) >>,
                  "ok")

(***************************************************************************)
(* ReactionSyncEvent._process_event (messages without attachments).  A     *)
(* text of several paragraphs is the sequence of its paragraphs, which     *)
(* blank lines separate.                                                   *)
(***************************************************************************)
\* chat_getPermalink: the permalink Slack gives the message.
Permalink(channel, ts) == "https://slack/" \o channel \o "/" \o ts

\* The text conversations.replies gives for the message.
MessageText(ts) == "text of " \o ts

\* The downloadable files conversations.replies lists for the message: the
\* messages of this specification carry none.
MessageFiles(ts) == <<>>

\* bool(files) in "if files:".  get_content_from_message_ts returns the files
\* as a generator expression, and a generator object is true whatever it
\* yields.
FilesTruthy(files) == TRUE

\* An attribution line without the permalink.
_format_text_without_link(text, message_link) ==
    << "(Originating from [Slack message])", text >>

_format_text(text, message_link) ==
    << "(Originating from [Slack message|" \o message_link \o "])", text >>

\* The comment: the formatted text, a blank line, the issue's markups.
CommentBody(formatted_text, attachment_content) == formatted_text \o << attachment_content >>

SyncPlan(obj, tbl) ==
    LET thread_ts == SlackThreadTs(obj.message_ts)
        first == << Call("get_thread_ts_from_message_ts", None, None, obj.message_ts, <<>>) >>
    IN  IF thread_ts = None \/ ~obj.wrappers
        THEN Plan(first, "IgnorableException")
        ELSE
        LET thread_id == _get_thread_id(thread_ts, obj.channel_id)
            jira_issue_ids == query(tbl, thread_id)
            reads == first \o << Call("query", None, thread_id, None, <<>>) >>
        IN  IF jira_issue_ids = <<>>
            THEN Plan(reads, "IgnorableException")
            ELSE Plan(reads \o
                      << Call("get_content_from_message_ts", None, None, obj.message_ts, <<>>),
                         Call("get_message_link", None, None, obj.message_ts, <<>>) >>
                      \o (IF FilesTruthy(MessageFiles(obj.message_ts))
                          THEN << Call("process_file_attachments", None, None,
                                       obj.message_ts, <<>>) >>
                          ELSE <<>>)
                      \o [i \in 1..Len(jira_issue_ids) |->
                            Call("add_comment", jira_issue_ids[i], None,
                                 Permalink(obj.channel_id, obj.message_ts),
                                 CommentBody(_format_text(MessageText(obj.message_ts),
                                                          Permalink(obj.channel_id,
                                                                    obj.message_ts)),
                                             ""))],
                      "ok")

\* _process_event of the object's class.
ProcessEventPlan(obj, tbl, links, link_removed) ==
    CASE obj.cls = "AppMentionRegisterEvent" -> RegisterPlan(obj, tbl, links)
      [] obj.cls = "AppMentionDeregisterEvent" -> DeregisterPlan(obj, tbl, links, link_removed)
      [] OTHER -> SyncPlan(obj, tbl)

\* Running a plan whose fail-th call raises (0: none does).
RunPlan(plan, fail, st) ==
    LET n == Len(plan.calls)
        done == IF fail = 0 \/ fail > n THEN plan.calls ELSE SubSeq(plan.calls, 1, fail - 1)
        after == Effects(done, st)
        log == [i \in 1..Len(done) |-> Logged(done[i].op, done[i].arg, TRUE)]
               \o (IF fail = 0 \/ fail > n THEN <<>>
                   ELSE << Logged(plan.calls[fail].op, plan.calls[fail].arg, FALSE) >>)
    IN  [result |-> IF fail = 0 \/ fail > n THEN plan.final ELSE "BodyError",
         table |-> after.table, links |-> after.links, comments |-> after.comments,
         log |-> log]

(***************************************************************************)
(* Marking the source message: SlackSdkWrapper.remove_bot_reactions and    *)
(* add_reaction.  A reactions call may raise the SDK's SlackClientError    *)
(* (the wrapper's ClientException) or an error of another class, such as   *)
(* a transport error the SDK passes on unchanged.                          *)
(***************************************************************************)
MarkingErrors == {"SlackClientError", "TransportError"}

\* A remove_bot_reactions whose removals leave the reactions on the message.
remove_bot_reactions_keeping(cur) ==
    LET removed(k) == [i \in 1..k |-> Logged("reactions_remove", cur[i], TRUE)]
    IN  { [left |-> cur, exc |-> None,
           log |-> << Logged("reactions_get", None, TRUE) >> \o removed(Len(cur))] }

\* The ways remove_bot_reactions can end on a message that carries the bot
\* reactions cur: every one removed, reactions_get raised, or the i-th
\* reactions_remove raised after the ones before it were removed.
remove_bot_reactions(cur) ==
    LET removed(k) == [i \in 1..k |-> Logged("reactions_remove", cur[i], TRUE)]
    IN  { [left |-> <<>>, exc |-> None,
           log |-> << Logged("reactions_get", None, TRUE) >> \o removed(Len(cur))] }
        \cup
        { [left |-> cur, exc |-> e, log |-> << Logged("reactions_get", None, FALSE) >>] :
            e \in MarkingErrors }
        \cup
        { [left |-> SubSeq(cur, i, Len(cur)), exc |-> e,
           log |-> << Logged("reactions_get", None, TRUE) >> \o removed(i - 1)
                   \o << Logged("reactions_remove", cur[i], FALSE) >>] :
            i \in 1..Len(cur), e \in MarkingErrors }

\* The ways add_reaction(reaction) can end; acknowledge_event_not_handled
\* adds nothing (reaction = None).
add_reaction(reaction) ==
    IF reaction = None
    THEN { [added |-> <<>>, exc |-> None, log |-> <<>>] }
    ELSE { [added |-> << reaction >>, exc |-> None,
            log |-> << Logged("add_reaction", reaction, TRUE) >>] }
         \cup
         { [added |-> <<>>, exc |-> e, log |-> << Logged("add_reaction", reaction, FALSE) >>] :
             e \in MarkingErrors }

\* Event._acknowledge_prepare: the exception that leaves the wrapper.
Swallowed(exc) == exc = "SlackClientError"

AcknowledgeEscapes(exc) == IF exc = None \/ Swallowed(exc) THEN None ELSE exc

\* The end of handle_event: what it raises to its caller (None: it returns).
HandleEventRaises(body, ack_exc) ==
    IF ack_exc # None THEN ack_exc
    ELSE IF body \in {"ok", "NotHandledException", "IgnorableException"} THEN None
    ELSE body

(***************************************************************************)
(* Initial states.                                                         *)
(***************************************************************************)
Thread1 == _get_thread_id("T1", Channel1)

\* Contents of the Registration table and of Jira before the notification.
Worlds ==
    { [table |-> {}, links |-> {}],
      [table |-> {Item("PROJ-1", Thread1, "1")},
       links |-> {Link("PROJ-1", 1, <<"T1">>)}],
      [table |-> {Item("PROJ-1", Thread1, "1"), Item("PROJ-2", Thread1, "2")},
       links |-> {Link("PROJ-1", 1, <<"T1">>), Link("PROJ-2", 2, <<"T1">>)}],
      [table |-> {Item("PROJ-1", Thread1, "1")}, links |-> {}],
      [table |-> {Item("PROJ-1", Thread1, None)}, links |-> {}] }

\* The indicator an earlier attempt left on the messages, if any.
PriorReactions == { <<>>, << SuccessReaction >>, << ErrorReaction >> }

Init ==
    /\ event_dict \in Payloads
    /\ pc = "idle"
    /\ event_obj = NoEvent
    /\ body_impl = "none"
    /\ body_result = "pending"
    /\ raised = None
    /\ \E prior \in PriorReactions : bot_reactions = [ts \in Timestamps |-> prior]
    /\ \E w \in Worlds :
        /\ table = w.table
        /\ jira_links = w.links
    /\ jira_comments = <<>>
    /\ calls = <<>>
    /\ verify_status = 0
    /\ request = NoRequest
    /\ verify_reply = None
    /\ queue = <<>>
    /\ transfer = NoTransfer
    /\ jobs = <<>>

(***************************************************************************)
(* SlackEventVerifier.verify and the handler's catch-all around it.  A     *)
(* request has headers or none, a signature that is valid or not, and a    *)
(* body: none, text that is not JSON, a URL-verification challenge, or an  *)
(* event callback, whose event is the notification event_dict.             *)
(***************************************************************************)
Request(headers, body, signed) == [headers |-> headers, body |-> body, signed |-> signed]

Challenge == "challenge-1"

Requests ==
    { Request(TRUE, "event_callback", TRUE), Request(TRUE, "event_callback", FALSE),
      Request(FALSE, "event_callback", TRUE), Request(TRUE, "none", FALSE),
      Request(FALSE, "none", FALSE), Request(TRUE, "url_verification", TRUE),
      Request(TRUE, "url_verification", FALSE), Request(TRUE, "invalid_json", TRUE) }

\* construct_return_data and the answers built beside it; an exception that
\* leaves verify is answered 500 by the handler.
Reply(status, message) == [status |-> status, reply |-> message, messages |-> <<>>]

\* The end of verify when create_event raised: UndefinedCommand is caught
\* and answered 400, any other exception leaves verify.
RejectedConstruction(exc) ==
    IF exc = "UndefinedCommand" THEN Reply(400, "Bad Request")
    ELSE Reply(500, "Internal Server Error")

verify(req, event_data) ==
    IF req.body = "none" \/ ~req.headers THEN Reply(400, "Bad Request")
    ELSE IF ~req.signed THEN Reply(403, "Forbidden")
    ELSE IF req.body = "invalid_json" THEN Reply(500, "Internal Server Error")
    ELSE IF req.body = "url_verification" THEN Reply(200, Challenge)
    ELSE LET r == create_event(event_data, FALSE)
         IN  IF r.exc # None THEN RejectedConstruction(r.exc)
             ELSE [status |-> 200, reply |-> "Success",
                   messages |-> << [body |-> CallerPayloadAfter(event_data),
                                    group |-> construct_message_group_id(r.obj)] >>]

\* verify reached create_event.
ReachesConstruction(req) == req.headers /\ req.signed /\ req.body = "event_callback"

Verify ==
    /\ pc = "idle"
    /\ verify_status = 0
    /\ \E req \in Requests :
         LET v == verify(req, event_dict)
         IN  /\ request' = req
             /\ verify_status' = v.status
             /\ verify_reply' = v.reply
             /\ queue' = queue \o v.messages
             /\ event_dict' = IF ReachesConstruction(req)
                              THEN CallerPayloadAfter(event_dict) ELSE event_dict
    /\ UNCHANGED << pc, event_obj, body_impl, body_result, raised,
                    bot_reactions, table, jira_links, jira_comments, calls >>
    /\ UNCHANGED transfer_vars

(***************************************************************************)
(* SlackEventProcessor.process: create the event, then handle it.          *)
(***************************************************************************)
CreateEvent ==
    /\ pc = "idle"
    /\ LET r == create_event(event_dict, TRUE)
       IN  /\ calls' = << Logged("create_event", r.cls, r.exc = None) >>
           /\ event_obj' = r.obj
           /\ raised' = r.exc
           /\ pc' = IF r.exc = None THEN "handle" ELSE "raised"
    /\ event_dict' = CallerPayloadAfter(event_dict)
    /\ UNCHANGED << body_impl, body_result, bot_reactions, table,
                    jira_links, jira_comments, verify_status, request, verify_reply, queue >>
    /\ UNCHANGED transfer_vars

\* What a stub standing for any other _process_event may do, by the contract
\* of the abstract method: return, or raise one of the three kinds.
BodyOutcomes == {"ok", "NotHandledException", "IgnorableException", "BodyError"}

\* A remove_link that raises does not end the body, and a transfer of no
\* file makes no request that could fail.
MayRaise(c) == c.op \notin {"remove_link", "remove_link_failed", "process_file_attachments"}

\* A handle_event that ran the body again after it raised.
BodyCallsRetried ==
    << Logged("handle_event", None, TRUE), Logged("_process_event", None, TRUE),
       Logged("_process_event", None, TRUE) >>

\* What one handle_event call logs on entry: itself, and its one call of the body.
BodyCalls ==
    << Logged("handle_event", None, TRUE), Logged("_process_event", None, TRUE) >>

\* handle_event, first part: the workflow body.
ProcessEvent ==
    /\ pc = "handle"
    /\ \/ \E link_removed \in (IF event_obj.cls = "AppMentionDeregisterEvent"
                               THEN BOOLEAN ELSE {TRUE}) :
            LET plan == ProcessEventPlan(event_obj, table, jira_links, link_removed)
            IN  \E fail \in 0..Len(plan.calls) :
                    /\ fail > 0 => MayRaise(plan.calls[fail])
                    /\ LET run == RunPlan(plan, fail,
                                          [table |-> table, links |-> jira_links,
                                           comments |-> jira_comments])
                       IN  /\ body_result' = run.result
                           /\ table' = run.table
                           /\ jira_links' = run.links
                           /\ jira_comments' = run.comments
                           /\ calls' = calls \o BodyCalls \o run.log
                    /\ body_impl' = "concrete"
       \/ \E out \in BodyOutcomes :
            /\ body_result' = out
            /\ body_impl' = "stub"
            /\ calls' = calls \o BodyCalls
            /\ UNCHANGED << table, jira_links, jira_comments >>
    /\ pc' = "acknowledge"
    /\ UNCHANGED << event_dict, event_obj, raised, bot_reactions, verify_status, request, verify_reply, queue >>
    /\ UNCHANGED transfer_vars

\* An acknowledge_event_* method under _acknowledge_prepare, and the end of
\* handle_event after it.
Acknowledge(reaction) ==
    \E rm \in remove_bot_reactions(bot_reactions[event_obj.message_ts]) :
      \E add \in (IF rm.exc = None THEN add_reaction(reaction) ELSE add_reaction(None)) :
        LET ack_exc == AcknowledgeEscapes(IF rm.exc # None THEN rm.exc ELSE add.exc)
            out == HandleEventRaises(body_result, ack_exc)
        IN  /\ bot_reactions' =
                  [bot_reactions EXCEPT ![event_obj.message_ts] = rm.left \o add.added]
            /\ calls' = calls \o rm.log \o add.log
            /\ raised' = out
            /\ pc' = IF out = None THEN "done" ELSE "raised"

AcknowledgeSuccess ==
    /\ pc = "acknowledge"
    /\ body_result = "ok"
    /\ Acknowledge(SuccessReaction)
    /\ UNCHANGED << event_dict, event_obj, body_impl, body_result, table, jira_links,
                    jira_comments, verify_status, request, verify_reply, queue >>
    /\ UNCHANGED transfer_vars

AcknowledgeError ==
    /\ pc = "acknowledge"
    /\ body_result \in {"IgnorableException", "BodyError"}
    /\ Acknowledge(ErrorReaction)
    /\ UNCHANGED << event_dict, event_obj, body_impl, body_result, table, jira_links,
                    jira_comments, verify_status, request, verify_reply, queue >>
    /\ UNCHANGED transfer_vars

AcknowledgeNotHandled ==
    /\ pc = "acknowledge"
    /\ body_result = "NotHandledException"
    /\ Acknowledge(None)
    /\ UNCHANGED << event_dict, event_obj, body_impl, body_result, table, jira_links,
                    jira_comments, verify_status, request, verify_reply, queue >>
    /\ UNCHANGED transfer_vars

Next ==
    \/ Verify
    \/ CreateEvent
    \/ ProcessEvent
    \/ AcknowledgeSuccess
    \/ AcknowledgeError
    \/ AcknowledgeNotHandled

Spec == Init /\ [][Next]_vars

(***************************************************************************)
(* A sequence of deliveries: each invocation of the processing handler     *)
(* processes one record, and the queue then delivers another notification  *)
(* or the same one again.  The store, Jira and the indicators are kept     *)
(* from one run to the next.                                               *)
(***************************************************************************)
\* Most comments after which a further notification is still delivered.
MaxComments == 2

Thread2 == _get_thread_id("T1", "C2")

MentionIn1(words) ==
    Payload("app_mention", << MentionToken >> \o words, None, Channel1, "T2", "T1", None, None)

RunsPayloads ==
    { MentionIn1(<< "register", "PROJ-1" >>), MentionIn1(<< "register", "PROJ-2" >>),
      MentionIn1(<< "deregister", "PROJ-1" >>),
      Payload("reaction_added", <<>>, SyncReaction, None, None, None, Channel1, "T1") }

\* The store is empty, or PROJ-1 is registered to a thread of another channel.
RunsWorlds ==
    { [table |-> {}, links |-> {}],
      [table |-> {Item("PROJ-1", Thread2, "1")}, links |-> {Link("PROJ-1", 1, <<"T1">>)}] }

RunsInit ==
    /\ event_dict \in RunsPayloads
    /\ pc = "idle"
    /\ event_obj = NoEvent
    /\ body_impl = "none"
    /\ body_result = "pending"
    /\ raised = None
    /\ bot_reactions = [ts \in Timestamps |-> <<>>]
    /\ \E w \in RunsWorlds :
        /\ table = w.table
        /\ jira_links = w.links
    /\ jira_comments = <<>>
    /\ calls = <<>>
    /\ verify_status = 0
    /\ request = NoRequest
    /\ verify_reply = None
    /\ queue = <<>>
    /\ transfer = NoTransfer
    /\ jobs = <<>>

\* The handler is invoked with the next record.
NextRecord ==
    /\ pc \in {"done", "raised"}
    /\ Len(jira_comments) < MaxComments
    /\ event_dict' \in RunsPayloads
    /\ (Len(event_dict'.text) > 1 /\ event_dict'.text[2] = "register")
           => NewLinkId(jira_links, table) <= MaxLinkId
    /\ pc' = "idle"
    /\ event_obj' = NoEvent
    /\ body_impl' = "none"
    /\ body_result' = "pending"
    /\ raised' = None
    /\ calls' = <<>>
    /\ UNCHANGED << bot_reactions, table, jira_links, jira_comments, verify_status, request, verify_reply, queue >>
    /\ UNCHANGED transfer_vars

RunsNext ==
    \/ CreateEvent
    \/ ProcessEvent
    \/ AcknowledgeSuccess
    \/ AcknowledgeError
    \/ AcknowledgeNotHandled
    \/ NextRecord

RunsSpec == RunsInit /\ [][RunsNext]_vars

(***************************************************************************)
(* The Transfer Engine: AsyncSlackToJiraTransfer.  transfer() starts one   *)
(* download_and_process_file job per file; a job starts one                *)
(* process_jira_upload task per issue, each fed through its own queue.     *)
(* Targets are numbered by their position in jira_issue_ids, files by      *)
(* their position in the file list, chunks of a file from 1 in download    *)
(* order.  An exception object in a result list is written as the name of  *)
(* its class.                                                              *)
(***************************************************************************)
\* Longest file, in chunks of CHUNK_SIZE_BYTES.
MaxChunks == 5

\* Most requests of a transfer that are answered with an error.
MaxRequestErrors == 6

QUEUE_MAXSIZE == 4

\* stop_after_attempt of get_response.
GetAttempts == 3

\* stop_after_attempt of do_post.
PostAttempts == 3

\* The end-of-stream sentinel (None in a queue).
Sentinel == 0

\* retry_if_exception_type((aiohttp.ClientError, asyncio.TimeoutError)) of
\* do_post and of get_response: the errors after which tenacity tries again.
retry_if_exception_type(exc) == exc \in {"ClientError", "TimeoutError"}

\* The errors a request can end with: a client error or a timeout of the
\* HTTP client, or an error of any other class.
RequestErrors == {"ClientError", "TimeoutError", "RuntimeError"}

\* The errors wait_for(post_task) can end with: those of do_post, and the
\* expiry of UPLOAD_TIMEOUT_SECONDS, which is raised outside do_post.
UploadErrors == RequestErrors \cup {"UploadTimeout"}

\* States of a POST task that is not over: created and not yet run, with a
\* request in flight, or asleep between two attempts.
PostUnderWay == {"created", "pending", "waiting"}

IMAGE_EXTENSIONS == {".png", ".jpg", ".jpeg", ".gif"}

\* channel, message timestamp and creation time, as __init__ joins them.
filename_suffix == "C1-T1-20240107"

File(stem, suffix, chunks, has_url) ==
    [stem |-> stem, suffix |-> suffix, chunks |-> chunks, has_url |-> has_url]

filename_to_jira_markup(filename, suffix) ==
    IF suffix \in IMAGE_EXTENSIONS
    THEN "!" \o filename \o "|thumbnail!"
    ELSE "[^" \o filename \o "]"

\* The name process_jira_upload gives the uploaded file (file ids count from 0).
new_filename(file, file_id) ==
    file.stem \o file.suffix \o "-" \o ToString(file_id - 1) \o "-" \o filename_suffix
        \o file.suffix

\* What process_jira_upload returns when the POST succeeded.
UploadMarkup(file, file_id) == filename_to_jira_markup(new_filename(file, file_id), file.suffix)

\* States of a task that is over.
Done(task) == task \in {"result", "exception", "cancelled"}

\* Task.cancel() on an upload task: a task that is over is left alone; any
\* other, run already or not, is cancelled when it next runs.
cancel(task) == IF task \in {"created", "running", "posted"} THEN "cancelling" ELSE task

\* What gather(*upload_tasks, return_exceptions=True) holds for a task.
TaskResult(task, markup) ==
    CASE task = "result" -> markup
      [] task = "exception" -> "Exception"
      [] OTHER -> "CancelledError"

\* isinstance(result, (Exception, type(None))): CancelledError derives from
\* BaseException only.
IsExceptionOrNone(result) == result \in {"Exception", "KeyError", None}

\* One cell of the list download_and_process_file returns.
Cell(result) == IF IsExceptionOrNone(result) THEN "" ELSE result

RECURSIVE JoinWith(_, _)
JoinWith(strs, sep) ==
    IF strs = <<>> THEN ""
    ELSE IF Len(strs) = 1 THEN Head(strs)
    ELSE Head(strs) \o sep \o JoinWith(Tail(strs), sep)

TargetIds == DOMAIN transfer.jira_issue_ids

\* A job before download_and_process_file has run its first line.
NewJob ==
    [phase |-> "created", gets |-> 0, read |-> 0, item |-> Sentinel, failed |-> FALSE,
     pending |-> {}, timed_out |-> {}, putters |-> {},
     queue |-> [t \in TargetIds |-> <<>>],
     open |-> [t \in TargetIds |-> TRUE],
     put_log |-> [t \in TargetIds |-> <<>>],
     task |-> [t \in TargetIds |-> "none"],
     posts |-> [t \in TargetIds |-> 0],
     get_error |-> None,
     post_error |-> [t \in TargetIds |-> None],
     post_task |-> [t \in TargetIds |-> "none"],
     body |-> [t \in TargetIds |-> <<>>],
     row |-> <<>>]

\* The except block and the start of the finally block: cancel every upload
\* task, then offer the sentinel to every queue still open.
DownloadFailed(j) ==
    [j EXCEPT !.failed = TRUE,
              !.task = [t \in TargetIds |-> cancel(j.task[t])],
              !.phase = "sentinel", !.item = Sentinel,
              !.pending = {t \in TargetIds : j.open[t]}, !.timed_out = {}]

\* The event loop runs its tasks in the order of their creation.  The puts
\* of a round run as tasks that gather creates after the upload tasks: when
\* the gather of a round is over, every upload task has run at least once,
\* and so has the POST task it created on its first run.
Started(j) ==
    \A t \in TargetIds : j.task[t] # "created" /\ j.post_task[t] # "created"

\* transfer(): create one job per file.
StartTransfer ==
    /\ transfer.pc = "start"
    /\ jobs' = [f \in DOMAIN transfer.files |-> NewJob]
    /\ transfer' = [transfer EXCEPT !.pc = "gather"]
    /\ UNCHANGED event_vars

\* download_and_process_file up to the first await: read the file dict,
\* create the queues and the upload tasks.  A task that was created has not
\* run yet.
JobStart(f) ==
    /\ jobs[f].phase = "created"
    /\ jobs' = [jobs EXCEPT ![f] =
                  IF transfer.files[f].has_url
                  THEN [@ EXCEPT !.phase = "get", !.task = [t \in TargetIds |-> "created"]]
                  ELSE [@ EXCEPT !.phase = "raised"]]
    /\ UNCHANGED << event_vars, transfer >>

\* The first run of process_jira_upload, up to await wait_for(post_task): it
\* builds the form around the chunk reader and creates the POST task, which
\* has not run yet.
UploadStart(f, t) ==
    /\ jobs[f].task[t] = "created"
    /\ jobs' = [jobs EXCEPT ![f] = [@ EXCEPT !.task[t] = "running",
                                            !.post_task[t] = "created"]]
    /\ UNCHANGED << event_vars, transfer >>

\* The first run of do_post: the first POST request is made.
PostStart(f, t) ==
    /\ jobs[f].task[t] \in {"running", "posted"}
    /\ jobs[f].post_task[t] = "created"
    /\ jobs' = [jobs EXCEPT ![f] = [@ EXCEPT !.post_task[t] = "pending", !.posts[t] = 1]]
    /\ UNCHANGED << event_vars, transfer >>

\* One attempt of get_response: it answers, or it ends with an error.  After
\* an error tenacity retries, and before the last attempt, the request is
\* made again; any other error, and the error of the last attempt, leave
\* get_response and fail the download.  A further attempt follows the sleep
\* of wait_fixed(1), during which the tasks created before it have run.
GetResponse(f) ==
    /\ jobs[f].phase = "get"
    /\ jobs[f].gets > 0 => Started(jobs[f])
    /\ \E exc \in {None} \cup RequestErrors :
         LET j == [jobs[f] EXCEPT !.gets = @ + 1, !.get_error = exc]
         IN  /\ exc # None => transfer.request_errors > 0
             /\ jobs' = [jobs EXCEPT ![f] =
                           IF exc = None THEN [j EXCEPT !.phase = "stream"]
                           ELSE IF retry_if_exception_type(exc) /\ j.gets < GetAttempts THEN j
                           ELSE DownloadFailed(j)]
             /\ transfer' = [transfer EXCEPT !.request_errors =
                                                IF exc = None THEN @ ELSE @ - 1]
    /\ UNCHANGED event_vars

\* The download loop reads the next chunk and starts a put for every target
\* whose queue is open and whose task is not done.
ReadChunk(f) ==
    /\ jobs[f].phase = "stream"
    /\ jobs[f].read < transfer.files[f].chunks
    /\ jobs' = [jobs EXCEPT ![f] =
                  [@ EXCEPT !.read = @ + 1, !.item = jobs[f].read + 1, !.phase = "round",
                            !.timed_out = {},
                            !.pending = {t \in TargetIds :
                                            jobs[f].open[t] /\ ~Done(jobs[f].task[t])}]]
    /\ UNCHANGED << event_vars, transfer >>

\* A failure while reading the body that asks for the response again.
StreamFailRetried(f) ==
    /\ jobs[f].phase = "stream"
    /\ jobs' = [jobs EXCEPT ![f] =
                  IF jobs[f].gets < GetAttempts THEN [@ EXCEPT !.phase = "get", !.read = 0]
                  ELSE DownloadFailed(@)]
    /\ UNCHANGED << event_vars, transfer >>

\* Reading the body raises.
StreamFail(f) ==
    /\ jobs[f].phase = "stream"
    /\ jobs' = [jobs EXCEPT ![f] = DownloadFailed(@)]
    /\ UNCHANGED << event_vars, transfer >>

\* The body is exhausted: the finally block offers the sentinel.
StreamEnd(f) ==
    /\ jobs[f].phase = "stream"
    /\ jobs[f].read = transfer.files[f].chunks
    /\ jobs' = [jobs EXCEPT ![f] =
                  [@ EXCEPT !.phase = "sentinel", !.item = Sentinel, !.timed_out = {},
                            !.pending = {t \in TargetIds : jobs[f].open[t]}]]
    /\ UNCHANGED << event_vars, transfer >>

\* A put that completes whether or not the queue has room.
PutUnbounded(f, t) ==
    /\ jobs[f].phase \in {"round", "sentinel"}
    /\ t \in jobs[f].pending
    /\ jobs' = [jobs EXCEPT ![f] =
                  [@ EXCEPT !.queue[t] = Append(@, jobs[f].item),
                            !.put_log[t] = Append(@, jobs[f].item),
                            !.pending = @ \ {t},
                            !.putters = @ \ {t}]]
    /\ UNCHANGED << event_vars, transfer >>

\* A put that places the item at the head of the queue.
PutAtHead(f, t) ==
    /\ jobs[f].phase \in {"round", "sentinel"}
    /\ t \in jobs[f].pending
    /\ Len(jobs[f].queue[t]) < QUEUE_MAXSIZE
    /\ jobs' = [jobs EXCEPT ![f] =
                  [@ EXCEPT !.queue[t] = << jobs[f].item >> \o @,
                            !.put_log[t] = Append(@, jobs[f].item),
                            !.pending = @ \ {t},
                            !.putters = @ \ {t}]]
    /\ UNCHANGED << event_vars, transfer >>

\* queue.put(item) completes: the queue has room.
Put(f, t) ==
    /\ jobs[f].phase \in {"round", "sentinel"}
    /\ t \in jobs[f].pending
    /\ Len(jobs[f].queue[t]) < QUEUE_MAXSIZE
    /\ jobs' = [jobs EXCEPT ![f] =
                  [@ EXCEPT !.queue[t] = Append(@, jobs[f].item),
                            !.put_log[t] = Append(@, jobs[f].item),
                            !.pending = @ \ {t},
                            !.putters = @ \ {t}]]
    /\ UNCHANGED << event_vars, transfer >>

\* wait_for(queue.put(item)) times out.  Only a put that waits can time out:
\* its queue is full, or was full while it waited and the reader has freed a
\* slot in the very iteration of the event loop in which the timer fires,
\* so that the put is cancelled before it runs again.
PutTimeout(f, t) ==
    /\ jobs[f].phase \in {"round", "sentinel"}
    /\ t \in jobs[f].pending
    /\ Len(jobs[f].queue[t]) = QUEUE_MAXSIZE \/ t \in jobs[f].putters
    /\ jobs' = [jobs EXCEPT ![f] =
                  [@ EXCEPT !.pending = @ \ {t}, !.timed_out = @ \cup {t},
                            !.putters = @ \ {t}]]
    /\ UNCHANGED << event_vars, transfer >>

\* A round that drops the queue of a timed-out target and leaves its task alone.
EndRoundWithoutCancel(f) ==
    /\ jobs[f].phase = "round"
    /\ jobs[f].pending = {}
    /\ Started(jobs[f])
    /\ jobs' = [jobs EXCEPT ![f] =
                  [@ EXCEPT !.phase = "stream",
                            !.open = [t \in TargetIds |->
                                        jobs[f].open[t] /\ t \notin jobs[f].timed_out],
                            !.queue = [t \in TargetIds |->
                                         IF t \in jobs[f].timed_out THEN <<>>
                                         ELSE jobs[f].queue[t]]]]
    /\ UNCHANGED << event_vars, transfer >>

\* After the round's gather: shut down and drop the queue of every target
\* whose put raised, and cancel its task.
EndRound(f) ==
    /\ jobs[f].phase = "round"
    /\ jobs[f].pending = {}
    /\ Started(jobs[f])
    /\ jobs' = [jobs EXCEPT ![f] =
                  [@ EXCEPT !.phase = "stream",
                            !.open = [t \in TargetIds |->
                                        jobs[f].open[t] /\ t \notin jobs[f].timed_out],
                            !.queue = [t \in TargetIds |->
                                         IF t \in jobs[f].timed_out THEN <<>>
                                         ELSE jobs[f].queue[t]],
                            !.task = [t \in TargetIds |->
                                        IF t \in jobs[f].timed_out THEN cancel(jobs[f].task[t])
                                        ELSE jobs[f].task[t]]]]
    /\ UNCHANGED << event_vars, transfer >>

\* The finally block's gather is over.
EndSentinel(f) ==
    /\ jobs[f].phase = "sentinel"
    /\ jobs[f].pending = {}
    /\ Started(jobs[f])
    /\ jobs' = [jobs EXCEPT ![f] = [@ EXCEPT !.phase = "gather"]]
    /\ UNCHANGED << event_vars, transfer >>

\* chunk_reader takes the next item; the sentinel ends the request body.  The
\* reader is run by the request that sends the body: it takes items while a
\* request of the POST task is in flight, also after the cancellation of its
\* upload task was requested and until that cancellation reaches the POST
\* task.  A get from a full queue on which a put is pending wakes that put,
\* which waited among the queue's putters: it is still pending, now with room.
Consume(f, t) ==
    /\ jobs[f].task[t] \in {"running", "cancelling"}
    /\ jobs[f].post_task[t] = "pending"
    /\ jobs[f].queue[t] # <<>>
    /\ jobs' = [jobs EXCEPT ![f] =
                  [@ EXCEPT !.queue[t] = Tail(@),
                            !.putters = IF t \in jobs[f].pending
                                           /\ Len(jobs[f].queue[t]) = QUEUE_MAXSIZE
                                        THEN @ \cup {t} ELSE @,
                            !.body[t] = Append(@, Head(jobs[f].queue[t])),
                            !.task[t] = IF Head(jobs[f].queue[t]) = Sentinel /\ @ = "running"
                                        THEN "posted" ELSE @]]
    /\ UNCHANGED << event_vars, transfer >>

\* The request of do_post is answered with a status below 400 and the answer
\* is read: the POST task ends with its result, whatever the chunk reader has
\* taken from the queue by then (Jira may answer before it has read the
\* whole body).  The upload task has yet to resume.
PostAnswered(f, t) ==
    /\ jobs[f].task[t] \in {"running", "posted"}
    /\ jobs[f].post_task[t] = "pending"
    /\ jobs' = [jobs EXCEPT ![f] = [@ EXCEPT !.post_task[t] = "result",
                                            !.post_error[t] = None]]
    /\ UNCHANGED << event_vars, transfer >>

\* An attempt that fails is followed by a sleep and a further attempt one
\* time more than stop_after_attempt allows.
PostFailsRetriedOnceMore(f, t) ==
    /\ jobs[f].task[t] \in {"running", "posted"}
    /\ jobs[f].post_task[t] = "pending"
    /\ transfer.request_errors > 0
    /\ \E exc \in RequestErrors :
         jobs' = [jobs EXCEPT ![f] =
                    [@ EXCEPT !.post_error[t] = exc,
                              !.post_task[t] =
                                  IF retry_if_exception_type(exc)
                                     /\ jobs[f].posts[t] < PostAttempts + 1
                                  THEN "waiting" ELSE "exception"]]
    /\ transfer' = [transfer EXCEPT !.request_errors = @ - 1]
    /\ UNCHANGED event_vars

\* The request of do_post fails.  After a client error or a timeout, and
\* before the last attempt, tenacity sleeps wait_fixed(1) before it tries
\* again; any other error, and the error of the last attempt, end the POST
\* task with that error.
PostFails(f, t) ==
    /\ jobs[f].task[t] \in {"running", "posted"}
    /\ jobs[f].post_task[t] = "pending"
    /\ transfer.request_errors > 0
    /\ \E exc \in RequestErrors :
         jobs' = [jobs EXCEPT ![f] =
                    [@ EXCEPT !.post_error[t] = exc,
                              !.post_task[t] =
                                  IF retry_if_exception_type(exc)
                                     /\ jobs[f].posts[t] < PostAttempts
                                  THEN "waiting" ELSE "exception"]]
    /\ transfer' = [transfer EXCEPT !.request_errors = @ - 1]
    /\ UNCHANGED event_vars

\* tenacity's sleep is over: do_post starts the next attempt, with the same
\* form and chunk reader.  The new request has sent nothing yet; its body is
\* what the chunk reader still yields: the items left in the queue, or
\* nothing once the reader has met the sentinel.  (A build whose FormData
\* refuses to be sent twice makes the new attempt raise, which is PostFails
\* after this step.)
PostRetry(f, t) ==
    /\ jobs[f].task[t] \in {"running", "posted"}
    /\ jobs[f].post_task[t] = "waiting"
    /\ jobs' = [jobs EXCEPT ![f] = [@ EXCEPT !.post_task[t] = "pending",
                                            !.posts[t] = @ + 1, !.body[t] = <<>>]]
    /\ UNCHANGED << event_vars, transfer >>

\* The cancellation requested for an upload task was passed on to the POST
\* task it awaits: the POST task, run already or not, ends cancelled when it
\* next runs.
PostCancelled(f, t) ==
    /\ jobs[f].task[t] = "cancelling"
    /\ jobs[f].post_task[t] \in PostUnderWay
    /\ jobs' = [jobs EXCEPT ![f] = [@ EXCEPT !.post_task[t] = "cancelled"]]
    /\ UNCHANGED << event_vars, transfer >>

\* UPLOAD_TIMEOUT_SECONDS expire while the POST task is under way: wait_for
\* cancels the POST task, which ends cancelled when it next runs.  The
\* upload task has yet to resume.
UploadTimeout(f, t) ==
    /\ jobs[f].task[t] \in {"running", "posted"}
    /\ jobs[f].post_task[t] \in {"pending", "waiting"}
    /\ jobs' = [jobs EXCEPT ![f] = [@ EXCEPT !.post_task[t] = "cancelled"]]
    /\ UNCHANGED << event_vars, transfer >>

\* process_jira_upload resumes from wait_for with the result of the POST
\* task and returns the markup.
UploadReturn(f, t) ==
    /\ jobs[f].task[t] \in {"running", "posted"}
    /\ jobs[f].post_task[t] = "result"
    /\ jobs' = [jobs EXCEPT ![f] = [@ EXCEPT !.task[t] = "result"]]
    /\ UNCHANGED << event_vars, transfer >>

\* process_jira_upload resumes from wait_for with an error and raises it:
\* the error the POST task ended with, or the TimeoutError of wait_for.  The
\* timeout is what it raises when the POST task was cancelled by it, and
\* also when the timer fired in the iteration of the event loop in which
\* the POST task ended, with its result or with its own error.  The except
\* block finds the POST task over and leaves it as it is.
UploadRaise(f, t) ==
    /\ jobs[f].task[t] \in {"running", "posted"}
    /\ Done(jobs[f].post_task[t])
    /\ \E exc \in {"UploadTimeout"} \cup
                   (IF jobs[f].post_task[t] = "exception" THEN {jobs[f].post_error[t]} ELSE {}) :
         jobs' = [jobs EXCEPT ![f] = [@ EXCEPT !.task[t] = "exception",
                                                !.post_error[t] = exc]]
    /\ UNCHANGED << event_vars, transfer >>

\* An upload task that ends cancelled without waiting for its POST task.
CancelDeliveredAtOnce(f, t) ==
    /\ jobs[f].task[t] = "cancelling"
    /\ jobs' = [jobs EXCEPT ![f] = [@ EXCEPT !.task[t] = "cancelled"]]
    /\ UNCHANGED << event_vars, transfer >>

\* An upload task whose cancellation was requested runs and ends cancelled.
\* A task that awaits its POST task resumes when the POST task is over, and
\* the POST task keeps what it ended with; a task that had not run yet never
\* runs a line, and has no POST task.
CancelDelivered(f, t) ==
    /\ jobs[f].task[t] = "cancelling"
    /\ jobs[f].post_task[t] \notin PostUnderWay
    /\ jobs' = [jobs EXCEPT ![f] = [@ EXCEPT !.task[t] = "cancelled"]]
    /\ UNCHANGED << event_vars, transfer >>

\* gather(*upload_tasks, return_exceptions=True) and the returned list.
GatherUploads(f) ==
    /\ jobs[f].phase = "gather"
    /\ \A t \in TargetIds : Done(jobs[f].task[t])
    /\ jobs' = [jobs EXCEPT ![f] =
                  [@ EXCEPT !.phase = "returned",
                            !.row = [t \in TargetIds |->
                                       Cell(TaskResult(jobs[f].task[t],
                                                       UploadMarkup(transfer.files[f], f)))]]]
    /\ UNCHANGED << event_vars, transfer >>

\* What gather(*file_tasks, return_exceptions=True) holds for a job.
FileTaskResult(j) == IF j.phase = "raised" THEN "KeyError" ELSE "list"

\* A transfer that leaves out the row of a job that raised.
TransferReturnSkippingFailed ==
    /\ transfer.pc = "gather"
    /\ \A f \in DOMAIN jobs : jobs[f].phase \in {"returned", "raised"}
    /\ transfer' = [transfer EXCEPT
                      !.pc = "returned",
                      !.grid = LET kept == SelectSeq(jobs, LAMBDA j : j.phase = "returned")
                               IN  [f \in DOMAIN kept |-> kept[f].row]]
    /\ UNCHANGED << event_vars, jobs >>

\* transfer(): every job is over; build the grid.
TransferReturn ==
    /\ transfer.pc = "gather"
    /\ \A f \in DOMAIN jobs : jobs[f].phase \in {"returned", "raised"}
    /\ transfer' = [transfer EXCEPT
                      !.pc = "returned",
                      !.grid = [f \in DOMAIN jobs |->
                                  IF IsExceptionOrNone(FileTaskResult(jobs[f]))
                                  THEN [t \in TargetIds |-> ""]
                                  ELSE jobs[f].row]]
    /\ UNCHANGED << event_vars, jobs >>

\* str.join raises TypeError on an item that is not a string.
IsStr(cell) == cell # "CancelledError"

\* process_file_attachments: transpose the grid and join each issue's markups.
JoinMarkups ==
    /\ transfer.pc = "returned"
    /\ IF \A f \in DOMAIN transfer.grid : \A t \in TargetIds : IsStr(transfer.grid[f][t])
       THEN transfer' = [transfer EXCEPT
                           !.pc = "joined",
                           !.attachment_contents =
                               IF transfer.grid = <<>> THEN <<>>
                               ELSE [t \in TargetIds |->
                                       JoinWith([f \in DOMAIN transfer.grid |->
                                                   transfer.grid[f][t]], "\n\n")]]
       ELSE transfer' = [transfer EXCEPT !.pc = "raised", !.exc = "TypeError"]
    /\ UNCHANGED << event_vars, jobs >>

\* The comment add_comment posts to the i-th issue: the formatted text and
\* that issue's markups (nothing when attachment_contents is empty).
SyncComment(i) ==
    [issue |-> transfer.jira_issue_ids[i],
     link |-> Permalink(Channel1, "T1"),
     body |-> CommentBody(_format_text(MessageText("T1"), Permalink(Channel1, "T1")),
                          IF transfer.attachment_contents = <<>> THEN ""
                          ELSE transfer.attachment_contents[i])]

\* The loop over the issues, one add_comment call a step: the call returns,
\* and the loop goes on to the next issue or ends, or the call raises and
\* the body ends with its error.
AddComment(started) ==
    /\ transfer.pc \in started
    /\ LET idx == Len(jira_comments) + 1
       IN  \/ /\ jira_comments' = Append(jira_comments, SyncComment(idx))
               /\ transfer' = [transfer EXCEPT
                                 !.pc = IF idx = Len(transfer.jira_issue_ids)
                                        THEN "commented" ELSE "joined"]
           \/ /\ transfer' = [transfer EXCEPT !.pc = "raised", !.exc = "JiraError"]
               /\ UNCHANGED jira_comments
    /\ UNCHANGED << event_dict, pc, event_obj, body_impl, body_result, raised, bot_reactions,
                    table, jira_links, calls, verify_status, request, verify_reply, queue, jobs >>

\* A body that posts its comments while the transfer is still running.
PostCommentsEarly == AddComment({"gather", "joined"})

\* ReactionSyncEvent._process_event after process_file_attachments returned:
\* one add_comment per issue, in the order of the issues, each with that
\* issue's markups.
PostComments == AddComment({"joined"})

\* The file lists and issue lists a transfer is started with: one file of up
\* to MaxChunks chunks, or two short files; a file dict may lack its 'url'.
\* With them goes the number of requests that are answered with an error
\* while the transfer runs.
PhotoFile(n) == File("photo", ".png", n, TRUE)

DataFile(n) == File("data", ".csv", n, TRUE)

FileWithoutUrl == File("data", ".csv", 1, FALSE)

OneIssue == << "PROJ-1" >>

TwoIssues == << "PROJ-1", "PROJ-2" >>

SingleFileLists ==
    {<< PhotoFile(n) >> : n \in 0..MaxChunks} \cup {<< DataFile(1) >>, << FileWithoutUrl >>}

\* One file for one issue with up to MaxRequestErrors request errors; for
\* two issues a file that overfills the queues with every request answered,
\* and shorter files with some request errors; two files of which one lacks
\* its url, or with one request error.
TransferInputs ==
    ({<<>>} \cup SingleFileLists) \X {OneIssue} \X {MaxRequestErrors}
    \cup {<<>>, << FileWithoutUrl >>} \X {TwoIssues} \X {0}
    \cup {<< PhotoFile(MaxChunks) >>} \X {TwoIssues} \X {0}
    \cup {<< PhotoFile(1) >>} \X {TwoIssues} \X {2}
    \cup {<< PhotoFile(0) >>} \X {TwoIssues} \X {3}
    \cup {<< PhotoFile(0), FileWithoutUrl >>, << PhotoFile(1), FileWithoutUrl >>}
              \X {OneIssue} \X {MaxRequestErrors}
    \cup {<< PhotoFile(0), FileWithoutUrl >>} \X {TwoIssues} \X {2}
    \cup {<< PhotoFile(0), DataFile(0) >>, << PhotoFile(1), DataFile(0) >>} \X {OneIssue} \X {1}

TransferInit ==
    /\ event_dict = Payload("reaction_added", <<>>, SyncReaction, None, None, None, Channel1, "T1")
    /\ pc = "idle"
    /\ event_obj = NoEvent
    /\ body_impl = "none"
    /\ body_result = "pending"
    /\ raised = None
    /\ bot_reactions = [ts \in Timestamps |-> <<>>]
    /\ table = {}
    /\ jira_links = {}
    /\ jira_comments = <<>>
    /\ calls = <<>>
    /\ verify_status = 0
    /\ request = NoRequest
    /\ verify_reply = None
    /\ queue = <<>>
    /\ \E input \in TransferInputs :
         transfer = [NoTransfer EXCEPT !.pc = "start", !.files = input[1],
                                       !.jira_issue_ids = input[2],
                                       !.request_errors = input[3]]
    /\ jobs = <<>>

TransferNext ==
    \/ StartTransfer
    \/ \E f \in DOMAIN jobs : JobStart(f)
    \/ \E f \in DOMAIN jobs : GetResponse(f)
    \/ \E f \in DOMAIN jobs : ReadChunk(f)
    \/ \E f \in DOMAIN jobs : StreamFail(f)
    \/ \E f \in DOMAIN jobs : StreamEnd(f)
    \/ \E f \in DOMAIN jobs : \E t \in TargetIds : Put(f, t)
    \/ \E f \in DOMAIN jobs : \E t \in TargetIds : PutTimeout(f, t)
    \/ \E f \in DOMAIN jobs : EndRound(f)
    \/ \E f \in DOMAIN jobs : EndSentinel(f)
    \/ \E f \in DOMAIN jobs : \E t \in TargetIds : UploadStart(f, t)
    \/ \E f \in DOMAIN jobs : \E t \in TargetIds : PostStart(f, t)
    \/ \E f \in DOMAIN jobs : \E t \in TargetIds : Consume(f, t)
    \/ \E f \in DOMAIN jobs : \E t \in TargetIds : PostAnswered(f, t)
    \/ \E f \in DOMAIN jobs : \E t \in TargetIds : PostFails(f, t)
    \/ \E f \in DOMAIN jobs : \E t \in TargetIds : PostRetry(f, t)
    \/ \E f \in DOMAIN jobs : \E t \in TargetIds : PostCancelled(f, t)
    \/ \E f \in DOMAIN jobs : \E t \in TargetIds : UploadTimeout(f, t)
    \/ \E f \in DOMAIN jobs : \E t \in TargetIds : UploadReturn(f, t)
    \/ \E f \in DOMAIN jobs : \E t \in TargetIds : UploadRaise(f, t)
    \/ \E f \in DOMAIN jobs : \E t \in TargetIds : CancelDelivered(f, t)
    \/ \E f \in DOMAIN jobs : GatherUploads(f)
    \/ TransferReturn
    \/ JoinMarkups
    \/ PostComments

TransferSpec == TransferInit /\ [][TransferNext]_vars

\* The transfers in which the bodies of retried requests are followed.
RetryInputs ==
    {<< << PhotoFile(MaxChunks) >>, OneIssue, MaxRequestErrors >>,
     << << PhotoFile(0) >>, TwoIssues, MaxRequestErrors >>,
     << << PhotoFile(0), FileWithoutUrl >>, OneIssue, MaxRequestErrors >>}

RetryInit ==
    /\ event_dict = Payload("reaction_added", <<>>, SyncReaction, None, None, None, Channel1, "T1")
    /\ pc = "idle"
    /\ event_obj = NoEvent
    /\ body_impl = "none"
    /\ body_result = "pending"
    /\ raised = None
    /\ bot_reactions = [ts \in Timestamps |-> <<>>]
    /\ table = {}
    /\ jira_links = {}
    /\ jira_comments = <<>>
    /\ calls = <<>>
    /\ verify_status = 0
    /\ request = NoRequest
    /\ verify_reply = None
    /\ queue = <<>>
    /\ \E input \in RetryInputs :
         transfer = [NoTransfer EXCEPT !.pc = "start", !.files = input[1],
                                       !.jira_issue_ids = input[2],
                                       !.request_errors = input[3]]
    /\ jobs = <<>>

RetrySpec == RetryInit /\ [][TransferNext]_vars

(***************************************************************************)
(* Properties.                                                             *)
(***************************************************************************)
Count(op) == Cardinality({i \in DOMAIN calls : calls[i].op = op})

CountArg(op, arg) == Cardinality({i \in DOMAIN calls : calls[i].op = op /\ calls[i].arg = arg})

\* handle_event has been called and has ended.
Handled == pc \in {"done", "raised"} /\ Count("handle_event") > 0

\* C1: when the body raises an exception that is neither NotHandledException
\* nor IgnorableException, handle_event attempts to add the failure indicator
\* and then re-raises that same exception to its caller.
C1_UnexpectedFailureReraised ==
    (Handled /\ body_result = "BodyError") =>
        /\ CountArg("add_reaction", ErrorReaction) = 1
        /\ pc = "raised"
        /\ raised = "BodyError"

\* C2: when the body raises IgnorableException, handle_event adds the failure
\* indicator and returns normally, so that no exception reaches the caller.
C2_IgnorableReturnsNormally ==
    (Handled /\ body_result = "IgnorableException") =>
        /\ CountArg("add_reaction", ErrorReaction) = 1
        /\ pc = "done"
        /\ raised = None

\* C3: when the body returns normally, handle_event adds the success indicator
\* and returns normally; every run that ends in success or failure makes
\* exactly one add-reaction call, for the success indicator only on success
\* and for the failure indicator only on failure.
C3_ExactlyOneIndicator ==
    /\ (Handled /\ body_result = "ok") =>
            /\ pc = "done"
            /\ CountArg("add_reaction", SuccessReaction) = 1
            /\ Count("add_reaction") = 1
    /\ (Handled /\ body_result \in {"IgnorableException", "BodyError"}) =>
            /\ CountArg("add_reaction", ErrorReaction) = 1
            /\ Count("add_reaction") = 1

\* C4: when the body raises NotHandledException, handle_event neither adds nor
\* removes any indicator on the source message and returns normally.
C4_NotHandledNoVisibleAction ==
    (Handled /\ body_result = "NotHandledException") =>
        /\ Count("add_reaction") = 0
        /\ Count("reactions_remove") = 0
        /\ pc = "done"

\* The command create_event infers for a notification of a registered kind.
InferredCommand(event_data) ==
    IF event_data.type = "app_mention"
    THEN AppMentionEvent_infer_subtype(event_data).sub_event_type
    ELSE ReactionEvent_infer_subtype(event_data).sub_event_type

\* The kind or the inferred command is missing, empty or unregistered.
Unresolvable(event_data) ==
    \/ event_data.type \notin {"app_mention", "reaction_added"}
    \/ InferredCommand(event_data) \notin {"register", "deregister", SyncReaction}

\* A notification that lacks a required identifying field.
MissingField(event_data) ==
    \/ /\ event_data.type = "app_mention"
       /\ \/ event_data.thread_ts = None
          \/ event_data.channel = None
          \/ event_data.ts = None
    \/ /\ event_data.type = "reaction_added"
       /\ \/ event_data.item_channel = None
          \/ event_data.item_ts = None

\* C5: processing a notification of a registered kind and command that lacks
\* a required identifying field changes no indicator, runs no workflow body and propagates no error to the
\* caller of SlackEventProcessor.process.
C5_MissingFieldDiscarded ==
    (MissingField(event_dict) /\ ~Unresolvable(event_dict) /\ pc # "idle") =>
        /\ pc # "raised"
        /\ Count("_process_event") = 0
        /\ Count("add_reaction") = 0
        /\ Count("reactions_remove") = 0

\* C6: whatever error the remove-reactions or add-reaction call raises,
\* handle_event returns or re-raises exactly as if the marking had succeeded:
\* it re-raises the body's own exception after an unexpected failure and
\* returns normally otherwise.
C6_MarkingNeverEscalated ==
    Handled =>
        IF body_result = "BodyError"
        THEN pc = "raised" /\ raised = "BodyError"
        ELSE pc = "done" /\ raised = None

\* C7: each handle_event call runs the workflow body exactly once, whatever the
\* outcome, and SlackEventProcessor.process calls handle_event exactly once for
\* a notification: once for every workflow that create_event returns, which it
\* does for every notification the verifier has enqueued.
C7_BodyRunsExactlyOnce ==
    /\ Count("_process_event") = Count("handle_event")
    /\ Count("handle_event") <= 1
    /\ (pc \in {"acknowledge", "done"}) => Count("handle_event") = 1
    /\ (pc = "raised" /\ event_obj # NoEvent) => Count("_process_event") = 1
    /\ (pc \in {"done", "raised"} /\ verify_status = 200 /\ queue # <<>>)
           => Count("handle_event") = 1

\* The body raised an unexpected error, handle_event re-raised it, and the
\* body had run once.
C7_Witness ==
    /\ pc = "raised"
    /\ body_result = "BodyError"
    /\ raised = "BodyError"
    /\ Count("_process_event") = 1

\* C8: create_event fails with UndefinedCommand and constructs no workflow
\* whenever the kind is missing, empty or unregistered, or the inferred command
\* is missing, empty or unregistered; otherwise the workflow type it
\* instantiates is the one registered for the inferred command.
C8_UndefinedCommandOrRegisteredType ==
    pc # "idle" =>
        IF Unresolvable(event_dict)
        THEN /\ pc = "raised"
             /\ raised = "UndefinedCommand"
             /\ event_obj = NoEvent
             /\ calls[1] = Logged("create_event", None, FALSE)
        ELSE /\ raised # "UndefinedCommand"
             /\ calls[1].op = "create_event"
             /\ calls[1].arg =
                  CASE InferredCommand(event_dict) = "register" -> "AppMentionRegisterEvent"
                    [] InferredCommand(event_dict) = "deregister" -> "AppMentionDeregisterEvent"
                    [] OTHER -> "ReactionSyncEvent"

\* A mention whose first word after the mention marker is no command.
C8_Witness ==
    /\ pc = "raised"
    /\ raised = "UndefinedCommand"
    /\ event_dict.type = "app_mention"
    /\ event_dict.text = << MentionToken, "PROJ-1", "register" >>

\* C9: a reaction-added notification whose reaction is not the sync indicator
\* posts no comment and adds or removes no indicator, whatever the store
\* holds, and ends in UndefinedCommand raised from create_event.
C9_OtherReactionUndefinedCommand ==
    (event_dict.type = "reaction_added" /\ event_dict.reaction # SyncReaction /\ pc # "idle") =>
        /\ pc = "raised"
        /\ raised = "UndefinedCommand"
        /\ Count("_process_event") = 0
        /\ Count("add_comment") = 0
        /\ Count("add_reaction") = 0
        /\ Count("reactions_remove") = 0

\* The thread a notification concerns: a mention names it; a reaction concerns
\* the thread of the message reacted to.
ConcernedThreadTs(event_data) ==
    IF event_data.type = "app_mention" THEN event_data.thread_ts
    ELSE IF event_data.item_ts = None THEN None
    ELSE SlackThreadTs(event_data.item_ts)

\* C10: every notification that concerns a thread is enqueued with that
\* thread's ThreadId as its message-group key.
C10_GroupKeyIsThreadId ==
    (verify_status = 200 /\ queue # <<>> /\ ConcernedThreadTs(event_dict) # None) =>
        queue[1].group = _get_thread_id(ConcernedThreadTs(event_dict), Channel1)

\* C10, as the code has it: a register or deregister mention is enqueued with
\* its thread's ThreadId; a sync reaction is enqueued with the channel and the
\* timestamp of the message reacted to, which is the ThreadId of that message's
\* thread exactly when the message is the thread's root.
C10_GroupKeyByKind ==
    (verify_status = 200 /\ queue # <<>>) =>
        /\ (/\ event_dict.type = "app_mention"
            /\ InferredCommand(event_dict) \in {"register", "deregister"}) =>
                queue[1].group = _get_thread_id(event_dict.thread_ts, event_dict.channel)
        /\ (event_dict.type = "reaction_added" /\ event_dict.reaction = SyncReaction) =>
                /\ queue[1].group = event_dict.item_channel \o "_" \o event_dict.item_ts
                /\ (SlackThreadTs(event_dict.item_ts) # None =>
                        ((queue[1].group =
                            _get_thread_id(SlackThreadTs(event_dict.item_ts),
                                           event_dict.item_channel))
                         <=> event_dict.item_ts = SlackThreadTs(event_dict.item_ts)))

\* A sync reaction on a reply has been enqueued under a key that is not the
\* ThreadId of the reply's thread.
C10_Witness ==
    /\ verify_status = 200
    /\ queue # <<>>
    /\ event_dict.type = "reaction_added"
    /\ event_dict.reaction = SyncReaction
    /\ event_dict.item_ts = "T2"
    /\ queue[1].group = "C1_T2"

(***************************************************************************)
(* Properties of the Transfer Engine.                                      *)
(***************************************************************************)
\* transfer() has returned its grid.
TransferReturned == transfer.pc \in {"returned", "joined", "raised", "commented"}

\* C11: whatever download failure, upload failure, push timeout or task
\* cancellation occurs in the Transfer Engine, no error propagates out of the
\* attachment processing and one comment is posted to every registered issue.
C11_AttachmentsBestEffort ==
    /\ transfer.exc # "TypeError"
    /\ transfer.pc = "raised" => transfer.exc = "JiraError"
    /\ transfer.pc = "commented" => Len(jira_comments) = Len(transfer.jira_issue_ids)

\* C12: after download_and_process_file and transfer return, every cell of the
\* grid is the markup string of the generated filename or the empty string,
\* and is the empty string for a target whose upload task raised, timed out
\* or was cancelled.
C12_CellsMarkupOrEmpty ==
    /\ \A f \in DOMAIN jobs : jobs[f].phase = "returned" =>
          \A t \in TargetIds :
              /\ jobs[f].row[t] \in {"", UploadMarkup(transfer.files[f], f)}
              /\ jobs[f].task[t] # "result" => jobs[f].row[t] = ""
    /\ TransferReturned =>
          \A f \in DOMAIN transfer.grid : \A t \in TargetIds :
              transfer.grid[f][t] \in {"", UploadMarkup(transfer.files[f], f)}

\* The transfers whose termination is followed to the end: one file for one
\* issue; for two issues a file of one chunk, and a file that fills the
\* queues so that the sentinel finds them full; and two files of which the
\* second lacks its url.
FairTransferInputs ==
    ({<<>>} \cup SingleFileLists) \X {OneIssue} \X {MaxRequestErrors}
    \cup {<< PhotoFile(1) >>} \X {TwoIssues} \X {1}
    \cup {<< PhotoFile(QUEUE_MAXSIZE) >>} \X {TwoIssues} \X {0}
    \cup {<< PhotoFile(0), FileWithoutUrl >>, << PhotoFile(1), FileWithoutUrl >>}
              \X {OneIssue} \X {MaxRequestErrors}

FairTransferInit ==
    /\ event_dict = Payload("reaction_added", <<>>, SyncReaction, None, None, None, Channel1, "T1")
    /\ pc = "idle"
    /\ event_obj = NoEvent
    /\ body_impl = "none"
    /\ body_result = "pending"
    /\ raised = None
    /\ bot_reactions = [ts \in Timestamps |-> <<>>]
    /\ table = {}
    /\ jira_links = {}
    /\ jira_comments = <<>>
    /\ calls = <<>>
    /\ verify_status = 0
    /\ request = NoRequest
    /\ verify_reply = None
    /\ queue = <<>>
    /\ \E input \in FairTransferInputs :
         transfer = [NoTransfer EXCEPT !.pc = "start", !.files = input[1],
                                       !.jira_issue_ids = input[2],
                                       !.request_errors = input[3]]
    /\ jobs = <<>>

\* The event loop runs every task that can take a step, and every timeout
\* fires: a transfer that can take a step eventually takes one.
FairTransferSpec == FairTransferInit /\ [][TransferNext]_vars /\ WF_vars(TransferNext)

\* The chunks of file f in download order.
AllChunks(f) == [i \in 1..transfer.files[f].chunks |-> i]

\* C13: a failure of one target's upload affects only that target.  A task is
\* cancelled only after its own push timed out or after the download failed;
\* while the download streams, every target that is open and not done has
\* received the chunk just read; a target whose own upload succeeded has
\* received every chunk of a download that did not fail, and ends with its
\* non-empty markup.
C13_UploadFailureIsolated ==
    \A f \in DOMAIN jobs : \A t \in TargetIds :
        LET j == jobs[f]
        IN  /\ j.task[t] \in {"cancelling", "cancelled"} => (j.failed \/ ~j.open[t])
            /\ (j.phase = "stream" /\ j.read >= 1 /\ j.open[t] /\ ~Done(j.task[t])) =>
                   (j.put_log[t] # <<>> /\ j.put_log[t][Len(j.put_log[t])] = j.read)
            /\ j.task[t] = "result" =>
                   /\ ~j.failed
                   /\ j.put_log[t] = Append(AllChunks(f), Sentinel)
            /\ (j.phase = "returned" /\ j.task[t] = "result") =>
                   /\ j.row[t] = UploadMarkup(transfer.files[f], f)
                   /\ j.row[t] # ""

\* C14: transfer returns one row per file and one cell per target in each row,
\* in the order of the files and of the targets, whatever the downloads and
\* uploads did; a job that itself raised gives a row of empty strings.
C14_GridShape ==
    TransferReturned =>
        /\ Len(transfer.grid) = Len(transfer.files)
        /\ \A f \in DOMAIN transfer.files :
              /\ Len(transfer.grid[f]) = Len(transfer.jira_issue_ids)
              /\ \A t \in TargetIds :
                    /\ jobs[f].phase = "raised" => transfer.grid[f][t] = ""
                    /\ jobs[f].phase = "returned" =>
                          ((transfer.grid[f][t] = UploadMarkup(transfer.files[f], f))
                              <=> jobs[f].task[t] = "result")

\* Two files for two issues: the second job raised, the first uploaded to the
\* first issue only.
C14_Witness ==
    /\ TransferReturned
    /\ Len(transfer.files) = 2
    /\ transfer.jira_issue_ids = TwoIssues
    /\ jobs[2].phase = "raised"
    /\ transfer.grid[1][1] = "!photo.png-0-C1-T1-20240107.png|thumbnail!"
    /\ transfer.grid[1][2] = ""
    /\ transfer.grid[2] = << "", "" >>

\* C15: the body of a file is downloaded at most once.  The response is asked
\* for only before any chunk was read and at most GetAttempts times; once the
\* body streams, no step asks for it again, also after a failure; each step
\* reads at most the next chunk, and the chunk just read is offered to every
\* target whose queue is open and whose task is not done.
C15_DownloadedOnce ==
    [][\A f \in DOMAIN jobs :
          LET j == jobs[f]
              k == jobs'[f]
          IN  /\ k.gets \in {j.gets, j.gets + 1}
              /\ k.gets <= GetAttempts
              /\ k.gets # j.gets => (j.phase = "get" /\ j.read = 0)
              /\ j.phase \notin {"created", "get"} => k.phase # "get"
              /\ k.read \in {j.read, j.read + 1}
              /\ k.read # j.read =>
                    /\ j.phase = "stream"
                    /\ k.item = k.read
                    /\ k.pending = {t \in TargetIds : j.open[t] /\ ~Done(j.task[t])}]_vars

\* A download that failed after two chunks were read, behind a single request.
C15_Witness ==
    \E f \in DOMAIN jobs :
        /\ jobs[f].phase = "returned"
        /\ jobs[f].failed
        /\ jobs[f].read = 2
        /\ jobs[f].gets = 1

\* C16: a queue never holds more than QUEUE_MAXSIZE items, and the download
\* loop reads the next chunk only when no put of the previous chunk is still
\* waiting: every target that was open and running when the previous chunk was
\* read has by then accepted that chunk or was dropped.
C16_BoundedQueues ==
    /\ [](\A f \in DOMAIN jobs : \A t \in TargetIds :
             Len(jobs[f].queue[t]) <= QUEUE_MAXSIZE)
    /\ [][\A f \in DOMAIN jobs :
            LET j == jobs[f]
            IN  jobs'[f].read # j.read =>
                   /\ j.pending = {}
                   /\ \A t \in TargetIds :
                         (j.read >= 1 /\ j.open[t] /\ ~Done(j.task[t])) =>
                             j.put_log[t][Len(j.put_log[t])] = j.read]_vars

\* The fifth chunk waits for room in a queue that holds four items.
C16_Witness ==
    \E f \in DOMAIN jobs : \E t \in TargetIds :
        /\ jobs[f].phase = "round"
        /\ jobs[f].read = 5
        /\ t \in jobs[f].pending
        /\ Len(jobs[f].queue[t]) = QUEUE_MAXSIZE

\* The last n items of a sequence.
LastItems(log, n) == SubSeq(log, Len(log) - n + 1, Len(log))

\* C17: what was put on a target's queue is a prefix of the downloaded chunks,
\* in download order without gap or repetition, followed at most once, and
\* only at the very end, by the sentinel; the items still in an open queue are
\* the most recent puts in the same order, so its one consumer takes them in
\* the order its one producer put them.
C17_OrderedDelivery ==
    \A f \in DOMAIN jobs : \A t \in TargetIds :
        LET j == jobs[f]
            log == j.put_log[t]
            chunks == SelectSeq(log, LAMBDA item : item # Sentinel)
        IN  /\ Len(chunks) <= j.read
            /\ chunks = [i \in 1..Len(chunks) |-> i]
            /\ log \in {chunks, Append(chunks, Sentinel)}
            /\ Sentinel \in {log[i] : i \in DOMAIN log} =>
                  j.phase \in {"sentinel", "gather", "returned"}
            /\ j.open[t] =>
                  /\ Len(j.queue[t]) <= Len(log)
                  /\ j.queue[t] = LastItems(log, Len(j.queue[t]))

\* Both chunks of a file and then the sentinel were put for a target, and the
\* last two are still queued.
C17_Witness ==
    \E f \in DOMAIN jobs : \E t \in TargetIds :
        /\ jobs[f].put_log[t] = << 1, 2, Sentinel >>
        /\ jobs[f].queue[t] = << 2, Sentinel >>

\* The items of a log, as a set.
Items(log) == {log[i] : i \in DOMAIN log}

\* C18 as stated: once the round of the latest chunk is over, every target
\* that did not receive that chunk, because a push timed out or because its
\* task was already done, has had its queue closed and dropped, its task is
\* not running, and it gets no sentinel.
C18_EveryFailedPushDrops ==
    \A f \in DOMAIN jobs : \A t \in TargetIds :
        LET j == jobs[f]
        IN  (j.read >= 1 /\ j.phase # "round" /\ j.read \notin Items(j.put_log[t])) =>
               /\ ~j.open[t]
               /\ j.task[t] \notin {"running", "posted"}
               /\ Sentinel \notin Items(j.put_log[t])

\* C18: a target whose push timed out is dropped at the end of that round and
\* only then: its queue is closed and emptied, its task is cancelled in the
\* same step, and it receives no further chunk and no sentinel; the targets
\* that stay open and running have received every chunk read so far.  A
\* target whose task was already done is offered no further chunk, but its
\* queue stays open and the sentinel is still offered to it.
C18_TimedOutPushDrops ==
    /\ [](\A f \in DOMAIN jobs : \A t \in TargetIds :
             LET j == jobs[f]
             IN  /\ ~j.open[t] =>
                       /\ j.queue[t] = <<>>
                       /\ j.task[t] \notin {"running", "posted"}
                       /\ Sentinel \notin Items(j.put_log[t])
                 /\ (j.phase # "round" /\ j.open[t] /\ ~Done(j.task[t])) =>
                       1..j.read \subseteq Items(j.put_log[t]))
    /\ [][\A f \in DOMAIN jobs : \A t \in TargetIds :
            LET j == jobs[f]
                k == jobs'[f]
            IN  /\ ~j.open[t] => (~k.open[t] /\ k.put_log[t] = j.put_log[t])
                /\ (j.open[t] /\ ~k.open[t]) =>
                      /\ j.phase = "round"
                      /\ t \in j.timed_out
                      /\ k.task[t] \notin {"running", "posted"}
                /\ (j.phase = "round" /\ k.phase = "stream" /\ t \in j.timed_out) =>
                      ~k.open[t]
                /\ (k.read # j.read /\ Done(j.task[t])) =>
                      /\ t \notin k.pending
                      /\ k.open[t] = j.open[t]
                /\ (j.phase = "stream" /\ k.phase = "sentinel") =>
                      k.pending = {u \in TargetIds : j.open[u]}]_vars

\* The first target was dropped when the fifth chunk timed out and its task is
\* cancelled; the second target went on to receive the fifth chunk.
C18_Witness ==
    /\ transfer.jira_issue_ids = TwoIssues
    /\ jobs # <<>>
    /\ ~jobs[1].open[1]
    /\ jobs[1].task[1] = "cancelled"
    /\ jobs[1].put_log[1] = << 1, 2, 3, 4 >>
    /\ 5 \in Items(jobs[1].put_log[2])

\* C19: once the download of a file has failed, before or during streaming,
\* none of its upload tasks is running or has succeeded, and no cell of its
\* row is a success markup; the step in which one job fails changes no other
\* job, and in a job whose download did not fail a task is cancelled only
\* for its own push timeout.
C19_DownloadFailureCancelsUploads ==
    /\ [](\A f \in DOMAIN jobs : \A t \in TargetIds :
             LET j == jobs[f]
             IN  /\ j.failed =>
                       /\ j.task[t] \notin {"running", "posted", "result"}
                       /\ j.phase = "returned" =>
                             j.row[t] # UploadMarkup(transfer.files[f], f)
                 /\ (~j.failed /\ j.task[t] \in {"cancelling", "cancelled"}) => ~j.open[t])
    /\ [][\A f \in DOMAIN jobs : \A g \in DOMAIN jobs :
            (f # g /\ jobs'[f].failed # jobs[f].failed) => jobs'[g] = jobs[g]]_vars

\* Every job of the transfer is over, by returning its row or by raising.
JobsOver ==
    /\ transfer.pc # "start"
    /\ \A f \in DOMAIN jobs : jobs[f].phase \in {"returned", "raised"}

\* C20: every job ends, on every path.  When the loop is left, by the end of
\* the body or by a failure, a push of the sentinel is started for every queue
\* still open, and each push ends by acceptance or by its timeout; an upload
\* task is over only when the POST task it created, if any, is over; a job
\* returns only when every one of its upload tasks has a result, an exception
\* or is cancelled and no POST task is under way; and every job eventually
\* returns or raises.
C20_JobsTerminate ==
    /\ [](\A f \in DOMAIN jobs : \A t \in TargetIds :
             LET j == jobs[f]
             IN  /\ j.phase = "returned" =>
                       Done(j.task[t]) /\ j.post_task[t] \notin PostUnderWay
                 /\ Done(j.task[t]) => j.post_task[t] \notin PostUnderWay
                 /\ j.post_task[t] = "none" => j.task[t] \notin {"running", "posted", "result", "exception"}
                 /\ j.phase = "raised" => j.task[t] = "none" /\ j.post_task[t] = "none"
                 /\ (j.phase \in {"gather", "returned"} /\ j.open[t]) =>
                       \/ j.put_log[t] # <<>> /\ j.put_log[t][Len(j.put_log[t])] = Sentinel
                       \/ t \in j.timed_out)
    /\ [][\A f \in DOMAIN jobs :
            LET j == jobs[f]
                k == jobs'[f]
            IN  /\ (j.phase # "sentinel" /\ k.phase = "sentinel") =>
                      /\ k.item = Sentinel
                      /\ k.pending = {t \in TargetIds : j.open[t]}
                /\ (j.phase = "sentinel" /\ k.phase # "sentinel") =>
                      (j.pending = {} /\ k.phase = "gather")]_vars
    /\ <>[]JobsOver

\* A job for two issues returned after its download failed.  The reader of
\* the first upload took the sentinel after the cancellation was requested;
\* the first upload task and its POST task ended cancelled, the second had
\* failed before with the POST task holding the error, and both queues were
\* sent the sentinel.
C20_Witness ==
    \E f \in DOMAIN jobs :
        /\ transfer.jira_issue_ids = TwoIssues
        /\ jobs[f].phase = "returned"
        /\ jobs[f].failed
        /\ jobs[f].read > 0
        /\ jobs[f].open = << TRUE, TRUE >>
        /\ jobs[f].timed_out = {}
        /\ jobs[f].task = << "cancelled", "exception" >>
        /\ jobs[f].post_task = << "cancelled", "exception" >>
        /\ jobs[f].body[1] # <<>>
        /\ jobs[f].body[1][Len(jobs[f].body[1])] = Sentinel

\* C21: a POST is attempted at most PostAttempts times and the download
\* request at most GetAttempts times.  A further attempt is one more attempt
\* of an operation that is still under way, and it follows an attempt that
\* ended with a client error or a timeout; an attempt that ends with any other
\* error, and the last attempt whatever its error, end the operation in the
\* same step.  An upload fails with the error its POST task ended with or
\* with the expiry of its timeout, and only once its POST task is over.  A
\* download is marked failed only by its own request or stream, never by an
\* upload; what happens to a POST task or to an upload changes neither the
\* job's phase nor another upload; and a job whose file dict is complete
\* returns its row whatever failed, without raising.
C21_BoundedAttempts ==
    /\ [](\A f \in DOMAIN jobs :
             /\ jobs[f].gets <= GetAttempts
             /\ \A t \in TargetIds :
                   /\ jobs[f].posts[t] <= PostAttempts
                   /\ (jobs[f].post_task[t] = "exception"
                          /\ retry_if_exception_type(jobs[f].post_error[t]))
                         => jobs[f].posts[t] = PostAttempts
                   /\ (jobs[f].task[t] = "exception"
                          /\ retry_if_exception_type(jobs[f].post_error[t]))
                         => jobs[f].posts[t] = PostAttempts
             /\ jobs[f].phase = "raised" => ~transfer.files[f].has_url)
    /\ [][\A f \in DOMAIN jobs :
            LET j == jobs[f]
                k == jobs'[f]
            IN  /\ k.gets # j.gets =>
                      /\ j.phase = "get"
                      /\ k.gets = j.gets + 1
                      /\ j.gets >= 1 => retry_if_exception_type(j.get_error)
                      /\ k.phase = "get" <=>
                            (retry_if_exception_type(k.get_error) /\ k.gets < GetAttempts)
                      /\ k.phase = "stream" <=> k.get_error = None
                      /\ k.phase \notin {"get", "stream"} => k.failed /\ k.phase = "sentinel"
                /\ (k.failed /\ ~j.failed) => j.phase \in {"get", "stream"}
                /\ \A t \in TargetIds :
                      /\ (j.task[t] # "none" /\ k.posts[t] # j.posts[t]) =>
                            /\ k.posts[t] = j.posts[t] + 1
                            /\ j.task[t] \in {"running", "posted"}
                            /\ k.task[t] = j.task[t]
                            /\ k.post_task[t] = "pending"
                            /\ j.posts[t] >= 1 =>
                                  /\ j.post_task[t] = "waiting"
                                  /\ retry_if_exception_type(j.post_error[t])
                      /\ (j.post_task[t] = "pending" /\ k.post_task[t] \in {"waiting", "exception"}) =>
                            /\ k.post_error[t] \in RequestErrors
                            /\ k.posts[t] = j.posts[t]
                            /\ k.post_task[t] = "waiting" <=>
                                  (retry_if_exception_type(k.post_error[t])
                                     /\ j.posts[t] < PostAttempts)
                      /\ (k.post_task[t] \in {"waiting", "exception"}
                            /\ k.post_task[t] # j.post_task[t]) => j.post_task[t] = "pending"
                      /\ (k.task[t] = "exception" /\ j.task[t] # "exception") =>
                            /\ Done(j.post_task[t])
                            /\ k.post_task[t] = j.post_task[t]
                            /\ \/ k.post_error[t] = "UploadTimeout"
                               \/ j.post_task[t] = "exception" /\ k.post_error[t] = j.post_error[t]
                            /\ k.posts[t] = j.posts[t]
                      /\ (k.post_task[t] # j.post_task[t]
                            \/ (k.task[t] = "exception" /\ j.task[t] # "exception")) =>
                            /\ k.failed = j.failed
                            /\ k.phase = j.phase
                            /\ \A u \in TargetIds \ {t} :
                                  k.task[u] = j.task[u] /\ k.post_task[u] = j.post_task[u]]_vars

\* The download request answered on its second attempt, after a client error.
\* The first upload failed with the client error of its third attempt, the
\* second with an error of another class on its first; the job returned its
\* row.
C21_Witness ==
    /\ transfer.jira_issue_ids = TwoIssues
    /\ jobs # <<>>
    /\ jobs[1].phase = "returned"
    /\ ~jobs[1].failed
    /\ jobs[1].gets = 2
    /\ jobs[1].posts = << 3, 1 >>
    /\ jobs[1].task = << "exception", "exception" >>
    /\ jobs[1].post_task = << "exception", "exception" >>
    /\ jobs[1].post_error = << "ClientError", "RuntimeError" >>
    /\ jobs[1].row = << "", "" >>

(***************************************************************************)
(* Properties of the command workflows.  A step in which the body of a     *)
(* workflow runs is described by the state before it and the state after.  *)
(***************************************************************************)
\* The step in which the body of the given workflow class runs on a parsed command.
BodyRuns(cls) ==
    /\ pc = "handle"
    /\ pc' = "acknowledge"
    /\ body_impl' = "concrete"
    /\ event_obj.cls = cls
    /\ event_obj.wrappers
    /\ event_obj.sanitized_text # <<>>

\* The issue a mention names, and the thread id C + "_" + T of its thread.
CmdIssue == Head(event_obj.sanitized_text)

CmdThread == event_dict.channel \o "_" \o event_dict.thread_ts

\* The Registrations stored for the pair before and after the step.
StoredBefore == {it \in table : it.jira_issue_id = CmdIssue /\ it.slack_thread_id = CmdThread}

StoredAfter == {it \in table' : it.jira_issue_id = CmdIssue /\ it.slack_thread_id = CmdThread}

\* The calls the step made, and the remote links it created.
NewCalls == SubSeq(calls', Len(calls) + 1, Len(calls'))

NewLinks == {l \in jira_links' : ~\E m \in jira_links : m.issue = l.issue /\ m.id = l.id}

Made(op) == {i \in DOMAIN NewCalls : NewCalls[i].op = op}

\* The stored Registration names a remote link that exists on the issue.
StoredLinkExists ==
    \E it \in StoredBefore : \E l \in jira_links :
        l.issue = CmdIssue /\ ToString(l.id) = it.jira_link_id

\* C22: a register mention for a pair that has no Registration creates at
\* most one remote link, on the issue named; when no call fails the body ends
\* in success, having created exactly one link and then stored the one
\* Registration (issue, C_T, id of that link), the rest of the store unchanged.
C22_NewRegistration ==
    [][(BodyRuns("AppMentionRegisterEvent") /\ StoredBefore = {}) =>
          /\ Cardinality(NewLinks) <= 1
          /\ \A l \in NewLinks : l.issue = CmdIssue
          /\ body_result' = (IF \E i \in DOMAIN NewCalls : ~NewCalls[i].ok
                             THEN "BodyError" ELSE "ok")
          /\ body_result' = "ok" =>
                /\ \E l \in NewLinks :
                      /\ NewLinks = {l}
                      /\ table' = table \cup
                            {[jira_issue_id |-> CmdIssue, slack_thread_id |-> CmdThread,
                              jira_link_id |-> ToString(l.id)]}
                /\ Cardinality(Made("add_link")) = 1
                /\ Cardinality(Made("put_item")) = 1
                /\ Made("update_link") = {}
                /\ \A i \in Made("add_link") : \A k \in Made("put_item") : i < k]_vars

\* "register PROJ-1" in thread T1 of C1 with an empty store: one link on
\* PROJ-1, Jira's first, one Registration with that link's id, success.
C22_Witness ==
    /\ pc = "done"
    /\ event_obj.cls = "AppMentionRegisterEvent"
    /\ body_result = "ok"
    /\ Count("validate_link") = 0
    /\ Count("add_link") = 1
    /\ jira_links = {[issue |-> "PROJ-1", id |-> 1, title |-> << "T1" >>]}
    /\ table = {[jira_issue_id |-> "PROJ-1", slack_thread_id |-> "C1_T1", jira_link_id |-> "1"]}

\* C23: re-registering a pair whose stored remote link still exists creates
\* no remote link and removes none, and leaves the pair's Registration with
\* the link id it had; when no call fails the link carries the new title.
C23_ReRegisterValidLink ==
    [][(BodyRuns("AppMentionRegisterEvent") /\ StoredLinkExists) =>
          /\ NewLinks = {}
          /\ {<< l.issue, l.id >> : l \in jira_links'} = {<< l.issue, l.id >> : l \in jira_links}
          /\ Made("add_link") = {}
          /\ StoredAfter = StoredBefore
          /\ table' = table
          /\ body_result' = "ok" =>
                /\ Cardinality(Made("update_link")) = 1
                /\ \A l \in jira_links' :
                      (l.issue = CmdIssue /\ {ToString(l.id)} = {it.jira_link_id : it \in StoredBefore})
                          => l.title = (IF Len(event_obj.sanitized_text) > 1
                                        THEN Tail(event_obj.sanitized_text)
                                        ELSE << event_dict.thread_ts >>)]_vars

\* PROJ-1 is registered again with a title: its link 1 has the new title,
\* no link was added, the Registration still names link 1.
C23_Witness ==
    /\ pc = "done"
    /\ event_obj.cls = "AppMentionRegisterEvent"
    /\ body_result = "ok"
    /\ Count("update_link") = 1
    /\ jira_links = {[issue |-> "PROJ-1", id |-> 1, title |-> << "PROJ-1" >>]}
    /\ table = {[jira_issue_id |-> "PROJ-1", slack_thread_id |-> "C1_T1", jira_link_id |-> "1"]}

\* C24: re-registering a pair whose Registration has no link id, or names a
\* remote link that no longer exists, creates, when no call fails, exactly one
\* new remote link on the issue and overwrites the Registration so that it
\* names the new link; no other Registration changes.
C24_ReRegisterInvalidLink ==
    [][(BodyRuns("AppMentionRegisterEvent") /\ StoredBefore # {} /\ ~StoredLinkExists
            /\ body_result' = "ok") =>
          /\ \E l \in NewLinks :
                /\ NewLinks = {l}
                /\ l.issue = CmdIssue
                /\ StoredAfter = {[jira_issue_id |-> CmdIssue, slack_thread_id |-> CmdThread,
                                   jira_link_id |-> ToString(l.id)]}
          /\ table' \ StoredAfter = table \ StoredBefore
          /\ Made("update_link") = {}]_vars

\* The Registration of PROJ-1 named link 1, which Jira no longer has: after
\* the validation failed, link 2 was created and the Registration names it.
C24_Witness ==
    /\ pc = "done"
    /\ event_obj.cls = "AppMentionRegisterEvent"
    /\ body_result = "ok"
    /\ CountArg("validate_link", "1") = 1
    /\ Count("add_link") = 1
    /\ jira_links = {[issue |-> "PROJ-1", id |-> 2, title |-> << "T1" >>]}
    /\ table = {[jira_issue_id |-> "PROJ-1", slack_thread_id |-> "C1_T1", jira_link_id |-> "2"]}

\* Every call the step made returned.
AllReturned == \A i \in DOMAIN NewCalls : NewCalls[i].ok

\* A finished deregister run for a pair that has no Registration.
DeregisteredNothing ==
    /\ Handled
    /\ body_impl = "concrete"
    /\ event_obj.cls = "AppMentionDeregisterEvent"
    /\ event_obj.wrappers
    /\ event_obj.sanitized_text # <<>>
    /\ get_item(table, Head(event_obj.sanitized_text), CmdThread) = {}
    /\ body_result = "IgnorableException"

\* C26: a deregister mention for a pair that has no Registration ends as
\* Ignorable and deletes nothing: no remote-link deletion is attempted and no
\* item is removed from the store; the run then adds the failure indicator
\* and returns without raising.
C26_DeregisterNothing ==
    /\ [][(BodyRuns("AppMentionDeregisterEvent") /\ StoredBefore = {} /\ AllReturned) =>
              /\ body_result' = "IgnorableException"
              /\ Made("remove_link") = {}
              /\ Made("remove_link_failed") = {}
              /\ Made("delete_item") = {}
              /\ table' = table
              /\ jira_links' = jira_links]_vars
    /\ [](DeregisteredNothing =>
              /\ CountArg("add_reaction", ErrorReaction) = 1
              /\ pc = "done"
              /\ raised = None)

\* The stored Registration carries a link id.
StoredLinkIdPresent == \E it \in StoredBefore : ~Falsy(it.jira_link_id)

\* The attempts to delete the remote link: the ones that returned (a
\* not-found reply included) and the ones whose error the body logged.
RemoveAttempts == Made("remove_link") \cup Made("remove_link_failed")

\* C27: a deregister mention for a Registration that carries a link id makes
\* one attempt to delete the remote link and then, whether the attempt
\* returned, found no link or raised, deletes the Registration: the body ends
\* in success with the Registration absent and the rest of the store
\* unchanged; a failed attempt leaves Jira's links as they were.
C27_DeregisterDeletesLocal ==
    [][(BodyRuns("AppMentionDeregisterEvent") /\ Len(event_obj.sanitized_text) = 1
            /\ StoredLinkIdPresent /\ AllReturned) =>
          /\ body_result' = "ok"
          /\ Cardinality(RemoveAttempts) = 1
          /\ Cardinality(Made("delete_item")) = 1
          /\ \A i \in RemoveAttempts : \A j \in Made("delete_item") : i < j
          /\ \A i \in RemoveAttempts : \A it \in StoredBefore : NewCalls[i].arg = it.jira_link_id
          /\ StoredAfter = {}
          /\ table' = table \ StoredBefore
          /\ Made("remove_link_failed") # {} => jira_links' = jira_links
          /\ Made("remove_link") # {} =>
                jira_links' = {l \in jira_links :
                                 ~(l.issue = CmdIssue /\
                                   \E it \in StoredBefore : ToString(l.id) = it.jira_link_id)}]_vars

\* A finished deregister run whose attempt to delete the remote link raised:
\* the link is still in Jira, the Registration is gone, the body succeeded.
C27_Witness ==
    /\ pc = "done"
    /\ event_obj.cls = "AppMentionDeregisterEvent"
    /\ body_result = "ok"
    /\ CountArg("remove_link_failed", "1") = 1
    /\ Count("delete_item") = 1
    /\ get_item(table, "PROJ-1", "C1_T1") = {}
    /\ \E l \in jira_links : l.issue = "PROJ-1" /\ l.id = 1

(***************************************************************************)
(* Properties of the comment-sync workflow on a message without            *)
(* attachments.                                                            *)
(***************************************************************************)
\* A finished run of the comment-sync body.
SyncHandled ==
    /\ Handled
    /\ body_impl = "concrete"
    /\ event_obj.cls = "ReactionSyncEvent"
    /\ event_obj.wrappers

\* The issues registered to the thread of the message reacted to.
SyncIssues ==
    IF SlackThreadTs(event_obj.message_ts) = None THEN <<>>
    ELSE query(table, _get_thread_id(SlackThreadTs(event_obj.message_ts), event_obj.channel_id))

\* Every call of the run returned.
EveryCallReturned == \A i \in DOMAIN calls : calls[i].ok

\* The attribution line of a comment on the message reacted to.
AttributionLine ==
    "(Originating from [Slack message|"
        \o Permalink(event_obj.channel_id, event_obj.message_ts) \o "])"

\* C28: a sync reaction on a message of a thread with N >= 1 Registrations,
\* in a run where every call returned, posts exactly N comments, one to each
\* registered issue, each beginning with the attribution line that carries
\* the permalink of the message; the body ends in success, the success
\* indicator is added and handle_event returns.
C28_SyncPostsOnePerIssue ==
    (SyncHandled /\ SyncIssues # <<>> /\ EveryCallReturned) =>
        /\ Len(jira_comments) = Len(SyncIssues)
        /\ \A i \in DOMAIN jira_comments :
              /\ jira_comments[i].issue = SyncIssues[i]
              /\ Head(jira_comments[i].body) = AttributionLine
              /\ jira_comments[i].body[2] = MessageText(event_obj.message_ts)
        /\ \A i \in DOMAIN SyncIssues : \A j \in DOMAIN SyncIssues :
              SyncIssues[i] = SyncIssues[j] => i = j
        /\ Count("add_comment") = Len(SyncIssues)
        /\ body_result = "ok"
        /\ pc = "done"
        /\ raised = None
        /\ CountArg("add_reaction", SuccessReaction) = 1
        /\ bot_reactions[event_obj.message_ts] = << SuccessReaction >>

\* A sync run on a thread registered to two issues, every call returned: one
\* comment on PROJ-1 and one on PROJ-2, and the success indicator.
C28_Witness ==
    /\ SyncHandled
    /\ EveryCallReturned
    /\ pc = "done"
    /\ Len(jira_comments) = 2
    /\ jira_comments[1].issue = "PROJ-1"
    /\ jira_comments[2].issue = "PROJ-2"
    /\ Head(jira_comments[2].body) = AttributionLine
    /\ bot_reactions[event_obj.message_ts] = << SuccessReaction >>

\* A finished sync run on a message whose thread has no Registration, the
\* lookups of the thread and of its Registrations having returned.
SyncedUnregistered ==
    /\ SyncHandled
    /\ SlackThreadTs(event_obj.message_ts) # None
    /\ SyncIssues = <<>>
    /\ \A i \in DOMAIN calls :
          calls[i].op \in {"get_thread_ts_from_message_ts", "query"} => calls[i].ok

\* C29: a sync reaction on a message whose thread has no Registration ends as
\* Ignorable: no comment is posted, the content of the message is not fetched
\* and no transfer is started; the failure indicator is added and
\* handle_event returns without raising.
C29_SyncUnregistered ==
    SyncedUnregistered =>
        /\ body_result = "IgnorableException"
        /\ jira_comments = <<>>
        /\ Count("add_comment") = 0
        /\ Count("get_content_from_message_ts") = 0
        /\ transfer = NoTransfer
        /\ jobs = <<>>
        /\ CountArg("add_reaction", ErrorReaction) = 1
        /\ pc = "done"
        /\ raised = None

(***************************************************************************)
(* Properties of sequences of runs (RunsSpec).                             *)
(***************************************************************************)
\* The step belongs to a comment-sync run.
SyncRunStep == event_obj.cls = "ReactionSyncEvent" \/ event_obj'.cls = "ReactionSyncEvent"

\* C25: after any sequence of register, deregister and comment-sync runs the
\* store holds at most one Registration per (issue, thread) pair, and no step
\* of a comment-sync run creates, changes or deletes a Registration.
C25_OneRegistrationPerPair ==
    /\ [](\A a \in table : \A b \in table :
            (a.jira_issue_id = b.jira_issue_id /\ a.slack_thread_id = b.slack_thread_id)
                => a = b)
    /\ [][SyncRunStep => table' = table]_vars

\* After a comment-sync run posted comments, one thread holds Registrations
\* for two issues and one issue is registered to two threads.
C25_Witness ==
    /\ pc = "done"
    /\ event_obj.cls = "ReactionSyncEvent"
    /\ Len(jira_comments) = 2
    /\ table = {Item("PROJ-1", Thread2, "1"), Item("PROJ-1", "C1_T1", "2"),
                Item("PROJ-2", "C1_T1", "3")}

(***************************************************************************)
(* Properties of the comment-sync body around the transfer (TransferSpec). *)
(***************************************************************************)
\* C30: the transfer is started at most once in a run, with one job per
\* attachment and one upload task per target issue in each job; when the
\* first comment is posted the transfer has returned, every job is over and
\* every upload task that was created has its final outcome, and none
\* changes afterwards.
C30_TransferBeforeComments ==
    /\ [](jobs # <<>> =>
            /\ DOMAIN jobs = DOMAIN transfer.files
            /\ \A f \in DOMAIN jobs : DOMAIN jobs[f].task = DOMAIN transfer.jira_issue_ids)
    /\ [](jira_comments # <<>> =>
            /\ transfer.pc \in {"joined", "commented", "raised"}
            /\ \A f \in DOMAIN jobs :
                  /\ jobs[f].phase \in {"returned", "raised"}
                  /\ jobs[f].pending = {}
                  /\ \A t \in TargetIds :
                        \/ Done(jobs[f].task[t])
                        \/ jobs[f].task[t] = "none" /\ jobs[f].phase = "raised")
    /\ [][/\ transfer.pc # "start" => (transfer'.pc # "start" /\ DOMAIN jobs' = DOMAIN jobs)
          /\ jira_comments # <<>> => UNCHANGED jobs
          /\ jira_comments' # jira_comments =>
                /\ jobs' = jobs
                /\ transfer.pc = "joined"
                /\ transfer.grid # <<>> =>
                      Len(transfer.attachment_contents) = Len(transfer.jira_issue_ids)]_vars

\* Comments posted to two issues after a transfer of one attachment in which
\* one upload returned its markup and the other raised.
C30_Witness ==
    /\ transfer.pc = "commented"
    /\ Len(jira_comments) = 2
    /\ Len(jobs) = 1
    /\ jobs[1].task = << "result", "exception" >>
    /\ jira_comments[1].body[3] = "!photo.png-0-C1-T1-20240107.png|thumbnail!"
    /\ jira_comments[2].body[3] = ""

(***************************************************************************)
(* Properties of construction and of the verifier.                         *)
(***************************************************************************)
\* C31: create_event leaves the caller's payload as it was, the kind field
\* and the item included, whether it returns or raises, in the processor and
\* in the verifier; the body the verifier enqueues is the payload it received.
C31_PayloadUnmodified ==
    /\ [][event_dict' = event_dict]_vars
    /\ [](\A i \in DOMAIN queue : queue[i].body = event_dict)

\* The verifier enqueued a mention and the processor constructed its
\* workflow: the payload still carries its kind.
C31_Witness ==
    /\ verify_status = 200
    /\ pc = "handle"
    /\ Len(queue) = 1
    /\ queue[1].body = event_dict
    /\ event_dict.type = "app_mention"
    /\ event_obj.cls = "AppMentionRegisterEvent"

\* The verifier has answered a request.
Verified == verify_status # 0

\* The request has headers and a body and its signature is valid.
Authentic == request.headers /\ request.body # "none" /\ request.signed

\* The event's kind and command are both registered.
Resolves(event_data) == create_event(event_data, FALSE).exc # "UndefinedCommand"

\* The answers of a verifier that enqueued nothing, by case.
RejectedAnswer ==
    /\ queue = <<>>
    /\ (~request.headers \/ request.body = "none") => verify_status = 400
    /\ (request.headers /\ request.body # "none" /\ ~request.signed) => verify_status = 403
    /\ (Authentic /\ request.body = "url_verification") =>
          (verify_status = 200 /\ verify_reply = Challenge)
    /\ (Authentic /\ request.body = "event_callback") => verify_status = 400

\* C32: verify enqueues exactly one message, with the received event as body
\* and the group key of the constructed event, and answers 200, when the
\* request has headers and a body, its signature is valid and the event
\* resolves to a registered workflow; in every other case it enqueues nothing
\* and answers 400 (headers or body missing), 403 (signature invalid), 200
\* with the challenge (URL verification) or 400 (event unsupported).
C32_VerifyEnqueuesOnce ==
    Verified =>
        IF Authentic /\ request.body = "event_callback" /\ Resolves(event_dict)
        THEN /\ verify_status = 200
             /\ Len(queue) = 1
             /\ queue[1].body = event_dict
             /\ queue[1].group =
                    construct_message_group_id(create_event(event_dict, FALSE).obj)
        ELSE RejectedAnswer

\* C33: every notification the verifier enqueues can be constructed by the
\* processor: create_event with the collaborators present raises nothing for
\* the enqueued body and returns the workflow the verifier constructed, so
\* the processor's create_event step leads to handle_event.
C33_EnqueuedIsConstructible ==
    /\ [](\A i \in DOMAIN queue :
            /\ create_event(queue[i].body, TRUE).exc = None
            /\ construct_message_group_id(create_event(queue[i].body, TRUE).obj)
                   = queue[i].group)
    /\ []((queue # <<>> /\ pc # "idle") =>
            /\ Count("create_event") = 1
            /\ pc # "handle" => Count("handle_event") = 1
            /\ pc # "raised" \/ body_result # "pending"
            /\ event_obj = create_event(queue[1].body, TRUE).obj
            /\ event_obj # NoEvent)
    /\ [][(queue # <<>> /\ pc = "idle" /\ pc' # "idle") => pc' = "handle"]_vars

\* An enqueued deregister mention whose workflow the processor constructed
\* and handled.
C33_Witness ==
    /\ verify_status = 200
    /\ Len(queue) = 1
    /\ queue[1].body.text = << MentionToken, "deregister", "PROJ-1" >>
    /\ pc = "done"
    /\ event_obj.cls = "AppMentionDeregisterEvent"
    /\ event_obj.wrappers
    /\ Count("handle_event") = 1

\* What construction makes of the payload with the ticket client and the
\* store present, and with both absent.
Constructed == create_event(event_dict, TRUE)

ConstructedBare == create_event(event_dict, FALSE)

\* The state of Slack, of Jira and of the store.
collaborators == << bot_reactions, table, jira_links, jira_comments >>

\* C36: constructing a workflow calls no operation of Slack, of Jira or of
\* the store: the create_event step of the processor and the whole of verify
\* leave their state unchanged and log no call but create_event itself; and
\* construction ends the same way, with the same exception or the same
\* workflow fields, whether the ticket client and the store are present or
\* absent.
C36_ConstructionWithoutIO ==
    /\ [](/\ Constructed.exc = ConstructedBare.exc
          /\ Constructed.cls = ConstructedBare.cls
          /\ Constructed.obj = [ConstructedBare.obj EXCEPT !.wrappers = Constructed.exc = None]
          /\ Constructed.exc # None => Constructed.obj = NoEvent)
    /\ [][(pc = "idle" /\ pc' # "idle") =>
            /\ UNCHANGED collaborators
            /\ calls' = << Logged("create_event", Constructed.cls, Constructed.exc = None) >>
            /\ raised' = Constructed.exc
            /\ event_obj' = Constructed.obj]_vars
    /\ [][verify_status' # verify_status =>
            (UNCHANGED collaborators /\ calls' = calls)]_vars
    /\ []((Verified /\ Authentic /\ request.body = "event_callback") =>
            ((verify_status = 200) <=> (Constructed.exc = None)))

\* A sync reaction that the verifier constructed without the ticket client
\* and the store and the processor constructed with them, before any call.
C36_Witness ==
    /\ verify_status = 200
    /\ pc = "handle"
    /\ event_obj.cls = "ReactionSyncEvent"
    /\ event_obj.wrappers
    /\ ~ConstructedBare.obj.wrappers
    /\ calls = << Logged("create_event", "ReactionSyncEvent", TRUE) >>
    /\ bot_reactions["T1"] = << ErrorReaction >>

(***************************************************************************)
(* Properties of the indicators over sequences of runs (RunsSpec).         *)
(***************************************************************************)
\* The step in which handle_event marks the source message.
MarkingStep == pc = "acknowledge" /\ pc' \in {"done", "raised"}

\* The indicator of a run by the way its body ended: none for NotHandled.
IndicatorOf(result) ==
    IF result = "ok" THEN << SuccessReaction >>
    ELSE IF result = "NotHandledException" THEN <<>>
    ELSE << ErrorReaction >>

\* The bot's reactions on the source message before the step.
PriorIndicators == bot_reactions[event_obj.message_ts]

\* C34: in a run whose marking calls all return, handle_event first reads
\* the reactions, removes every reaction the bot left on the source message
\* and only then adds the indicator of this run (none after NotHandled),
\* leaving every other message alone; so over every sequence of runs a
\* message carries at most one bot indicator, and after such a run it is the
\* indicator of that run.
C34_OneIndicator ==
    /\ [](\A ts \in Timestamps : Len(bot_reactions[ts]) <= 1)
    /\ [][(MarkingStep /\ AllReturned) =>
            /\ NewCalls[1].op = "reactions_get"
            /\ \A i \in DOMAIN PriorIndicators :
                  NewCalls[1 + i] = Logged("reactions_remove", PriorIndicators[i], TRUE)
            /\ Len(NewCalls) = 1 + Len(PriorIndicators) + Len(IndicatorOf(body_result))
            /\ IndicatorOf(body_result) # <<>> =>
                  NewCalls[Len(NewCalls)] =
                      Logged("add_reaction", IndicatorOf(body_result)[1], TRUE)
            /\ bot_reactions' = [bot_reactions EXCEPT
                                   ![event_obj.message_ts] = IndicatorOf(body_result)]]_vars

\* A deregister mention delivered again after it had succeeded: the success
\* indicator of the first run was removed and the failure indicator is the
\* only one on the message.
C34_Witness ==
    /\ pc = "done"
    /\ event_obj.cls = "AppMentionDeregisterEvent"
    /\ body_result = "IgnorableException"
    /\ CountArg("reactions_remove", SuccessReaction) = 1
    /\ CountArg("add_reaction", ErrorReaction) = 1
    /\ bot_reactions["T2"] = << ErrorReaction >>

(***************************************************************************)
(* Properties of comment-sync on a message without attachments (Spec).     *)
(***************************************************************************)
\* C35: for a message with no attachments comment-sync does not invoke the
\* transfer (process_file_attachments is not called, so no transfer job is
\* created), and the attachment text that ends each comment is empty.
C35_NoTransferWithoutAttachments ==
    (SyncHandled /\ body_result = "ok" /\ MessageFiles(event_obj.message_ts) = <<>>) =>
        /\ Count("process_file_attachments") = 0
        /\ jobs = <<>>
        /\ \A i \in DOMAIN jira_comments :
              jira_comments[i].body[Len(jira_comments[i].body)] = ""

(***************************************************************************)
(* Properties of the upload attempts (RetrySpec).                          *)
(***************************************************************************)
\* C37: a target's cell is a non-empty markup only if the body of the POST
\* attempt that succeeded was every chunk downloaded for the file, in
\* download order, ended by the sentinel (which a reader that has met it
\* before does not read again), also when an earlier attempt of the upload
\* had failed after taking chunks from the queue.
C37_MarkupOnlyForWholeFile ==
    \A f \in DOMAIN jobs : \A t \in TargetIds :
        (jobs[f].phase = "returned"
            /\ jobs[f].row[t] = UploadMarkup(transfer.files[f], f)) =>
            /\ jobs[f].task[t] = "result"
            /\ jobs[f].body[t] \in {AllChunks(f), Append(AllChunks(f), Sentinel)}

(***************************************************************************)
(* Properties of the remote links over sequences of runs (RunsSpec)        *)
(***************************************************************************)
\* The run is over, of a link-create notification whose add_link returned.
LinkCreatedByRun ==
    /\ pc \in {"done", "raised"}
    /\ event_obj.cls = "AppMentionRegisterEvent"
    /\ \E i \in DOMAIN calls : calls[i].op = "add_link" /\ calls[i].ok

\* The remote link Jira created last: the one with the largest id.
NewestLink == CHOOSE l \in jira_links : \A k \in jira_links : k.id <= l.id

\* A stored Registration of the link's issue names the link.
Referenced(l) ==
    \E it \in table : it.jira_issue_id = l.issue /\ it.jira_link_id = StoredLinkId(l.id)

\* C38: once a link-create run has ended, however it ended, the remote link
\* it created in Jira is referenced by the linkId of a stored Registration,
\* so that a run that fails after add_link and its redelivery leave no
\* remote link that no Registration references.
C38_CreatedLinkReferenced ==
    LinkCreatedByRun => Referenced(NewestLink)

(***************************************************************************)
(* Properties of the order of the comments of a comment-sync run (Spec)    *)
(***************************************************************************)
\* The positions in the call log of the add_comment calls.
CommentCalls == {i \in DOMAIN calls : calls[i].op = "add_comment"}

\* An add_comment of the run raised.
PostFailed == \E i \in CommentCalls : ~calls[i].ok

\* The comments posted follow the order of the query, one issue after the
\* other, and an add_comment that raised is the last call of the body.
PostedInQueryOrder ==
    /\ Len(jira_comments) <= Len(SyncIssues)
    /\ \A i \in DOMAIN jira_comments : jira_comments[i].issue = SyncIssues[i]
    /\ Cardinality({i \in CommentCalls : calls[i].ok}) = Len(jira_comments)
    /\ \A i \in CommentCalls :
          ~calls[i].ok => \A j \in DOMAIN calls :
                             (j > i) => calls[j].op \in {"reactions_get", "reactions_remove",
                                                        "add_reaction"}

\* C39: a comment-sync run posts its comments in the order of the
\* Registration query, at most one to each issue; when posting to one issue
\* raises, no later issue receives a comment, the comments already posted
\* remain, the failure indicator is added and the error is re-raised.
C39_CommentsInOrderUntilFailure ==
    SyncHandled =>
        /\ PostedInQueryOrder
        /\ PostFailed =>
              /\ Cardinality(CommentCalls) = Len(jira_comments) + 1
              /\ body_result = "BodyError"
              /\ CountArg("add_reaction", ErrorReaction) = 1
              /\ bot_reactions[event_obj.message_ts] = << ErrorReaction >>
              /\ pc = "raised"
              /\ raised = "BodyError"

(***************************************************************************)
(* Properties of a link-remove notification delivered again (RunsSpec)     *)
(***************************************************************************)
\* A link-remove run has succeeded and returned.
DeregisterSucceeded ==
    /\ pc = "done"
    /\ body_impl = "concrete"
    /\ body_result = "ok"
    /\ event_obj.cls = "AppMentionDeregisterEvent"

\* The queue delivers the notification of that run again.
RedeliveryStep == DeregisterSucceeded /\ pc' = "idle" /\ event_dict' = event_dict

\* handle_event marks the message after a link-remove body that found no
\* Registration of its pair and ended as Ignorable.
MarksNothingRemoved ==
    /\ MarkingStep
    /\ body_impl = "concrete"
    /\ event_obj.cls = "AppMentionDeregisterEvent"
    /\ event_obj.sanitized_text # <<>>
    /\ StoredBefore = {}
    /\ body_result = "IgnorableException"

\* C40: a link-remove notification delivered again after it succeeded
\* changes nothing in the store or in Jira: the second run finds no
\* Registration of the pair, attempts no remote deletion and no store
\* deletion and ends as Ignorable; handle_event then replaces the indicator
\* on the source message by the failure indicator and returns without
\* raising.
C40_RedeliveredDeregisterChangesNothing ==
    /\ [][RedeliveryStep => (StoredAfter = {} /\ table' = table /\ jira_links' = jira_links)]_vars
    /\ [][(BodyRuns("AppMentionDeregisterEvent") /\ StoredBefore = {} /\ AllReturned) =>
              /\ body_result' = "IgnorableException"
              /\ RemoveAttempts = {}
              /\ Made("delete_item") = {}
              /\ table' = table
              /\ jira_links' = jira_links]_vars
    /\ [][MarksNothingRemoved =>
              /\ pc' = "done"
              /\ raised' = None
              /\ bot_reactions'[event_obj.message_ts] = << ErrorReaction >>
              /\ table' = table
              /\ jira_links' = jira_links]_vars
====
